---- MODULE Spec2Model ----
(***************************************************************************)
(* Hospital-management REST backend (Express + Prisma + PostgreSQL).       *)
(*                                                                         *)
(* The store is the variable db: one field per table of migration.sql.     *)
(* Every route handler is a small state machine whose steps are its awaited *)
(* store calls.  Spec serves requests one at a time (a handler runs to its *)
(* response in one step); SpecConc interleaves the steps of concurrent     *)
(* requests of the bed/admission coordinator.                              *)
(***************************************************************************)
EXTENDS Integers, FiniteSets, Sequences, TLC

VARIABLES
    db,     \* the relational store
    reqs    \* SpecConc: the request in flight on each connection

vars == <<db, reqs>>

(***************************************************************************)
(* Bounds of the model                                                     *)
(***************************************************************************)
\* Rows ever inserted per table in Spec and SpecAppointments.
MaxPatients == 1
MaxBeds == 1
MaxAdmissions == 1
MaxAppointments == 2
MaxDates == 2
\* Admissions ever inserted in SpecConc.
MaxConcAdmissions == 2
\* Admissions ever inserted in SpecConcBeds.
MaxWardAdmissions == 1
\* Patients, and beds, ever inserted in SpecConcCreate.
MaxConcCreates == 2
\* Inventory items ever inserted, and the largest absolute value of a number
\* in the body of an inventory request, in SpecInventory.
MaxItems == 2
MaxNumber == 1
\* Appointments ever inserted in SpecAppointmentUpdates.
MaxUpdatedAppointments == 2
\* Appointments ever inserted in SpecIntegrity.
MaxIntegrityAppointments == 1
\* Runs of the seed script in SpecSeed.
MaxSeedRuns == 2
\* Beds in the stores of SpecDashboard.
MaxDashboardBeds == 40

(***************************************************************************)
(* Values                                                                  *)
(***************************************************************************)
\* SQL NULL / JavaScript undefined, for ids, dates and queue numbers.
NULL == 0
\* new Date(): dates decide no branch of the bed and admission handlers, so
\* every date stored there is represented by this one value.
Now == 1

PatientIds == 1..MaxPatients
BedIds == 1..MaxBeds
AdmissionIds == 1..MaxAdmissions
ConcAdmissionIds == 1..MaxConcAdmissions
WardAdmissionIds == 1..MaxWardAdmissions
AppointmentIds == 1..MaxAppointments
Dates == 1..MaxDates
ItemIds == 1..MaxItems
\* quantity, reorderLevel and cost in a request body.  cost is a float in the
\* code; its sign and its being zero are what the handlers depend on.
Numbers == (0 - MaxNumber)..MaxNumber

Mrns == {"MRN1", "MRN2"}
BedNumbers == {"A-101", "B-101"}

BedStatus == {"AVAILABLE", "OCCUPIED", "MAINTENANCE"}
AdmissionStatus == {"ACTIVE", "DISCHARGED", "TRANSFERRED"}
AppointmentStatus == {"SCHEDULED", "IN_QUEUE", "IN_PROGRESS", "COMPLETED", "CANCELLED"}

\* The User table.  No route creates, updates or deletes a user.
Users == [d1 |-> "DOCTOR", u1 |-> "RECEPTIONIST"]
\* Ids a request may name as its doctor: a doctor, a non-doctor, nobody.
UserInputs == {"d1", "u1", "x1"}

(***************************************************************************)
(* The store: tables are functions from the ids of their rows.             *)
(***************************************************************************)
EmptyTable == [i \in {} |-> NULL]

EmptyDb ==
    [patients     |-> EmptyTable,
     beds         |-> EmptyTable,
     admissions   |-> EmptyTable,
     appointments |-> EmptyTable,
     inventory    |-> EmptyTable,
     \* rows ever inserted per table: ids (UUIDs) are never reused
     seq          |-> [patients |-> 0, beds |-> 0, admissions |-> 0, appointments |-> 0,
                       inventory |-> 0]]

\* A row with the fields of data overwritten (Prisma's update data).
Merge(row, data) ==
    [f \in DOMAIN row |-> IF f \in DOMAIN data THEN data[f] ELSE row[f]]

Remove(table, id) == [i \in DOMAIN table \ {id} |-> table[i]]

Ok(d) == [ok |-> TRUE, db |-> d]
Throw(d) == [ok |-> FALSE, db |-> d]

\* prisma.patient.create: Patient_mrn_key is a unique index.
PatientCreate(d, data) ==
    IF \E p \in DOMAIN d.patients : d.patients[p].mrn = data.mrn
    THEN Throw(d)
    ELSE LET id == d.seq.patients + 1
         IN  Ok([d EXCEPT !.patients = (id :> [mrn |-> data.mrn]) @@ @,
                          !.seq.patients = id])

\* A faulty variant of the delete below, as if no foreign key restricted it.
PatientDeleteUnrestricted(d, id) ==
    IF id \notin DOMAIN d.patients
    THEN Throw(d)
    ELSE Ok([d EXCEPT !.patients = Remove(@, id)])

\* A faulty variant of the delete below, as if Bed_patientId_fkey did nothing
\* on delete.
PatientDeleteKeepBeds(d, id) ==
    IF \/ id \notin DOMAIN d.patients
       \/ \E a \in DOMAIN d.admissions : d.admissions[a].patientId = id
       \/ \E a \in DOMAIN d.appointments : d.appointments[a].patientId = id
    THEN Throw(d)
    ELSE Ok([d EXCEPT !.patients = Remove(@, id)])

\* prisma.patient.delete: Appointment_patientId_fkey and Admission_patientId_fkey
\* are ON DELETE RESTRICT, Bed_patientId_fkey is ON DELETE SET NULL.
PatientDelete(d, id) ==
    IF \/ id \notin DOMAIN d.patients
       \/ \E a \in DOMAIN d.admissions : d.admissions[a].patientId = id
       \/ \E a \in DOMAIN d.appointments : d.appointments[a].patientId = id
    THEN Throw(d)
    ELSE Ok([d EXCEPT !.patients = Remove(@, id),
                      !.beds = [b \in DOMAIN @ |->
                                  IF @[b].patientId = id
                                  THEN [@[b] EXCEPT !.patientId = NULL]
                                  ELSE @[b]]])

\* prisma.bed.create: Bed_bedNumber_key is a unique index; status defaults.
BedCreate(d, data) ==
    IF \E b \in DOMAIN d.beds : d.beds[b].bedNumber = data.bedNumber
    THEN Throw(d)
    ELSE LET id == d.seq.beds + 1
         IN  Ok([d EXCEPT !.beds = (id :> [bedNumber |-> data.bedNumber,
                                           status |-> data.status,
                                           patientId |-> NULL,
                                           admissionDate |-> NULL,
                                           expectedDischargeDate |-> NULL]) @@ @,
                          !.seq.beds = id])

\* prisma.bed.update: the row must exist; Bed_patientId_fkey must hold.
BedUpdate(d, id, data) ==
    IF \/ id \notin DOMAIN d.beds
       \/ /\ "patientId" \in DOMAIN data
          /\ data.patientId # NULL
          /\ data.patientId \notin DOMAIN d.patients
    THEN Throw(d)
    ELSE Ok([d EXCEPT !.beds[id] = Merge(@, data)])

\* A faulty variant of the delete below, as if no foreign key restricted it.
BedDeleteUnrestricted(d, id) ==
    IF id \notin DOMAIN d.beds
    THEN Throw(d)
    ELSE Ok([d EXCEPT !.beds = Remove(@, id)])

\* prisma.bed.delete: Admission_bedId_fkey is ON DELETE RESTRICT.
BedDelete(d, id) ==
    IF \/ id \notin DOMAIN d.beds
       \/ \E a \in DOMAIN d.admissions : d.admissions[a].bedId = id
    THEN Throw(d)
    ELSE Ok([d EXCEPT !.beds = Remove(@, id)])

\* A variant of the create below with an exclusion the schema does not have:
\* it refuses a second ACTIVE admission on a bed.
AdmissionCreateOnePerBed(d, data) ==
    IF \/ data.patientId \notin DOMAIN d.patients
       \/ data.bedId \notin DOMAIN d.beds
       \/ data.doctorId \notin DOMAIN Users
       \/ \E a \in DOMAIN d.admissions :
             d.admissions[a].bedId = data.bedId /\ d.admissions[a].status = "ACTIVE"
    THEN Throw(d)
    ELSE LET id == d.seq.admissions + 1
         IN  Ok([d EXCEPT !.admissions = (id :> [patientId |-> data.patientId,
                                                 bedId |-> data.bedId,
                                                 doctorId |-> data.doctorId,
                                                 status |-> data.status,
                                                 dischargeDate |-> NULL]) @@ @,
                          !.seq.admissions = id])

\* prisma.admission.create: the three foreign keys must hold.
AdmissionCreate(d, data) ==
    IF \/ data.patientId \notin DOMAIN d.patients
       \/ data.bedId \notin DOMAIN d.beds
       \/ data.doctorId \notin DOMAIN Users
    THEN Throw(d)
    ELSE LET id == d.seq.admissions + 1
         IN  Ok([d EXCEPT !.admissions = (id :> [patientId |-> data.patientId,
                                                 bedId |-> data.bedId,
                                                 doctorId |-> data.doctorId,
                                                 status |-> data.status,
                                                 dischargeDate |-> NULL]) @@ @,
                          !.seq.admissions = id])

AdmissionUpdate(d, id, data) ==
    IF id \notin DOMAIN d.admissions
    THEN Throw(d)
    ELSE Ok([d EXCEPT !.admissions[id] = Merge(@, data)])

AdmissionDelete(d, id) ==
    IF id \notin DOMAIN d.admissions
    THEN Throw(d)
    ELSE Ok([d EXCEPT !.admissions = Remove(@, id)])

\* A variant of the create below with an exclusion the schema does not have:
\* it refuses a queue number that a non-cancelled appointment of the date has.
AppointmentCreateUniqueQueue(d, data) ==
    IF \/ data.patientId \notin DOMAIN d.patients
       \/ data.doctorId \notin DOMAIN Users
       \/ \E a \in DOMAIN d.appointments :
             /\ d.appointments[a].date = data.date
             /\ d.appointments[a].status # "CANCELLED"
             /\ d.appointments[a].queueNumber = data.queueNumber
    THEN Throw(d)
    ELSE LET id == d.seq.appointments + 1
         IN  Ok([d EXCEPT !.appointments = (id :> [patientId |-> data.patientId,
                                                   doctorId |-> data.doctorId,
                                                   date |-> data.date,
                                                   status |-> data.status,
                                                   queueNumber |-> data.queueNumber]) @@ @,
                          !.seq.appointments = id])

\* prisma.appointment.create: the two foreign keys must hold.
AppointmentCreate(d, data) ==
    IF \/ data.patientId \notin DOMAIN d.patients
       \/ data.doctorId \notin DOMAIN Users
    THEN Throw(d)
    ELSE LET id == d.seq.appointments + 1
         IN  Ok([d EXCEPT !.appointments = (id :> [patientId |-> data.patientId,
                                                   doctorId |-> data.doctorId,
                                                   date |-> data.date,
                                                   status |-> data.status,
                                                   queueNumber |-> data.queueNumber]) @@ @,
                          !.seq.appointments = id])

AppointmentUpdate(d, id, data) ==
    IF id \notin DOMAIN d.appointments
    THEN Throw(d)
    ELSE Ok([d EXCEPT !.appointments[id] = Merge(@, data)])

AppointmentDelete(d, id) ==
    IF id \notin DOMAIN d.appointments
    THEN Throw(d)
    ELSE Ok([d EXCEPT !.appointments = Remove(@, id)])

\* prisma.inventoryItem.create
InventoryItemCreate(d, data) ==
    LET id == d.seq.inventory + 1
    IN  Ok([d EXCEPT !.inventory = (id :> [quantity |-> data.quantity,
                                           reorderLevel |-> data.reorderLevel,
                                           cost |-> data.cost]) @@ @,
                     !.seq.inventory = id])

InventoryItemUpdate(d, id, data) ==
    IF id \notin DOMAIN d.inventory
    THEN Throw(d)
    ELSE Ok([d EXCEPT !.inventory[id] = Merge(@, data)])

InventoryItemDelete(d, id) ==
    IF id \notin DOMAIN d.inventory
    THEN Throw(d)
    ELSE Ok([d EXCEPT !.inventory = Remove(@, id)])

\* One write of a transaction, given as data.
Write(d, w) ==
    CASE w.call = "bed.update"       -> BedUpdate(d, w.id, w.data)
      [] w.call = "admission.create" -> AdmissionCreate(d, w.data)
      [] w.call = "admission.update" -> AdmissionUpdate(d, w.id, w.data)
      [] w.call = "admission.delete" -> AdmissionDelete(d, w.id)

RECURSIVE WriteAll(_, _)
\* The writes in order, stopping at the first that throws; db is the store
\* as the writes so far left it.
WriteAll(d, writes) ==
    IF writes = <<>> THEN Ok(d)
    ELSE LET r == Write(d, Head(writes))
         IN  IF r.ok THEN WriteAll(r.db, Tail(writes)) ELSE Throw(r.db)

\* A faulty variant of the transaction below, without the rollback: the
\* writes that succeeded stay in the store.
TransactionNoRollback(d, writes) ==
    WriteAll(d, writes)

\* prisma.$transaction: all the writes commit together, or a throw rolls the
\* store back to d.
Transaction(d, writes) ==
    LET r == WriteAll(d, writes)
    IN  IF r.ok THEN r ELSE Throw(d)

(***************************************************************************)
(* Requests.  A request is the handler's position (pc), the validated      *)
(* fields of the request it serves, what the handler has read so far, and   *)
(* the status of the response (NULL until one is sent).                    *)
(***************************************************************************)
\* The numbers of the body of an inventory request.
NoBody == [quantity |-> NULL, reorderLevel |-> NULL, cost |-> NULL]

\* The body of the response of the dashboard summary, and the constants of
\* its handler on the way.
NoSummary ==
    [totalPatients |-> 0, totalAppointments |-> 0, appointmentsToday |-> 0,
     availableBeds |-> 0, occupiedBeds |-> 0, totalBeds |-> 0, occupancyRate |-> 0,
     lowStockItems |-> 0, recentAdmissions |-> {}, upcomingAppointments |-> {}]

NoRequest ==
    [op |-> "none", pc |-> "done", resp |-> NULL, body |-> NoBody, given |-> {},
     json |-> NoSummary,
     id |-> NULL, patientId |-> NULL, bedId |-> NULL, doctorId |-> "",
     status |-> "", date |-> NULL, expectedDischargeDate |-> NULL, key |-> "",
     readBedId |-> NULL, readFlag |-> FALSE, readQueue |-> NULL]

Goto(d, q, pc) == [db |-> d, req |-> [q EXCEPT !.pc = pc]]
\* res.status(code).json(...)
Reply(d, q, code) == [db |-> d, req |-> [q EXCEPT !.pc = "done", !.resp = code]]
\* the handler returns without sending a response
Return(d, q) == [db |-> d, req |-> [q EXCEPT !.pc = "done"]]

ActiveAdmissionsOfPatient(d, p) ==
    {a \in DOMAIN d.admissions :
        d.admissions[a].patientId = p /\ d.admissions[a].status = "ACTIVE"}

ActiveAdmissionsOfBed(d, b) ==
    {a \in DOMAIN d.admissions :
        d.admissions[a].bedId = b /\ d.admissions[a].status = "ACTIVE"}

ActiveAppointmentsOfPatient(d, p) ==
    {a \in DOMAIN d.appointments :
        /\ d.appointments[a].patientId = p
        /\ d.appointments[a].status \in {"SCHEDULED", "IN_QUEUE", "IN_PROGRESS"}}

ValidDoctor(doctorId) ==
    doctorId \in DOMAIN Users /\ Users[doctorId] = "DOCTOR"

\* A faulty variant of the data below: the patient stays on the freed bed.
FreeBedKeepPatient ==
    [status |-> "AVAILABLE", admissionDate |-> NULL, expectedDischargeDate |-> NULL]

\* The data that frees a bed (discharge, transfer, delete of an admission).
FreeBed ==
    [status |-> "AVAILABLE", patientId |-> NULL,
     admissionDate |-> NULL, expectedDischargeDate |-> NULL]

(***************************************************************************)
(* /admissions                                                             *)
(***************************************************************************)
\* A faulty variant of the test below: a bed in MAINTENANCE passes it.
BedNotAvailableAnyButOccupied(bed) == bed.status = "OCCUPIED"

\* if (bed.status !== 'AVAILABLE') return 400
BedNotAvailable(bed) == bed.status # "AVAILABLE"

\* A faulty variant of the writes below: the bed is not occupied.
AdmitWritesAdmissionOnly(q) ==
    << [call |-> "admission.create", id |-> NULL,
        data |-> [patientId |-> q.patientId, bedId |-> q.bedId,
                  doctorId |-> q.doctorId, status |-> "ACTIVE"]] >>

\* The transaction of POST /admissions: occupy the bed, create the admission.
AdmitWrites(q) ==
    << [call |-> "bed.update", id |-> q.bedId,
        data |-> [status |-> "OCCUPIED", patientId |-> q.patientId,
                  admissionDate |-> Now,
                  expectedDischargeDate |-> q.expectedDischargeDate]],
       [call |-> "admission.create", id |-> NULL,
        data |-> [patientId |-> q.patientId, bedId |-> q.bedId,
                  doctorId |-> q.doctorId, status |-> "ACTIVE"]] >>

\* POST /admissions.  The doctor is read between the bed and the active
\* admission; users never change, so that read is folded into the bed step.
AdmissionsPostStep(d, q) ==
    CASE q.pc = "patient" ->
            IF q.patientId \notin DOMAIN d.patients
            THEN Reply(d, q, 400)
            ELSE Goto(d, q, "bed")
      [] q.pc = "bed" ->
            IF q.bedId \notin DOMAIN d.beds
            THEN Reply(d, q, 400)
            ELSE IF BedNotAvailable(d.beds[q.bedId])
            THEN Reply(d, q, 400)
            ELSE IF ~ValidDoctor(q.doctorId)
            THEN Reply(d, q, 400)
            ELSE Goto(d, q, "active")
      [] q.pc = "active" ->
            IF ActiveAdmissionsOfPatient(d, q.patientId) # {}
            THEN Reply(d, q, 400)
            ELSE Goto(d, q, "txn")
      [] q.pc = "txn" ->
            LET r == Transaction(d, AdmitWrites(q))
            IN  IF r.ok THEN Reply(r.db, q, 201) ELSE Reply(r.db, q, 500)

\* A faulty variant of the writes below: the bed is not freed.
DischargeWritesKeepBed(q) ==
    << [call |-> "admission.update", id |-> q.id,
        data |-> [status |-> q.status, dischargeDate |-> Now]] >>

\* The transaction of PUT /admissions/:id on discharge or transfer: close the
\* admission, free the bed the handler read with it.
DischargeWrites(q) ==
    << [call |-> "admission.update", id |-> q.id,
        data |-> [status |-> q.status, dischargeDate |-> Now]],
       [call |-> "bed.update", id |-> q.readBedId, data |-> FreeBed] >>

\* A faulty variant of the data below: the status of the request is written.
SimpleUpdateDataWithStatus(q) == [status |-> q.status]

\* The data of the simple update of PUT /admissions/:id: diagnosis and notes,
\* which the model does not keep.
SimpleUpdateData(q) == [i \in {} |-> NULL]

\* PUT /admissions/:id.  status "" is a request without a status.
AdmissionsPutStep(d, q) ==
    CASE q.pc = "find" ->
            IF q.id \notin DOMAIN d.admissions
            THEN Reply(d, q, 404)
            ELSE IF q.status # "" /\ q.status # "ACTIVE"
                    /\ d.admissions[q.id].status = "ACTIVE"
            THEN Goto(d, [q EXCEPT !.readBedId = d.admissions[q.id].bedId], "txn")
            ELSE Goto(d, q, "update")
      [] q.pc = "txn" ->
            LET r == Transaction(d, DischargeWrites(q))
            IN  IF r.ok THEN Reply(r.db, q, 200) ELSE Reply(r.db, q, 500)
      [] q.pc = "update" ->
            LET r == AdmissionUpdate(d, q.id, SimpleUpdateData(q))
            IN  IF r.ok THEN Reply(r.db, q, 200) ELSE Reply(r.db, q, 500)

\* A faulty variant of the writes below: the bed is not freed.
DeleteActiveWritesKeepBed(q) ==
    << [call |-> "admission.delete", id |-> q.id, data |-> NULL] >>

\* The transaction of DELETE /admissions/:id for an ACTIVE admission.
DeleteActiveWrites(q) ==
    << [call |-> "bed.update", id |-> q.readBedId, data |-> FreeBed],
       [call |-> "admission.delete", id |-> q.id, data |-> NULL] >>

\* DELETE /admissions/:id
AdmissionsDeleteStep(d, q) ==
    CASE q.pc = "find" ->
            IF q.id \notin DOMAIN d.admissions
            THEN Reply(d, q, 404)
            ELSE IF d.admissions[q.id].status = "ACTIVE"
            THEN Goto(d, [q EXCEPT !.readBedId = d.admissions[q.id].bedId], "txn")
            ELSE Goto(d, q, "delete")
      [] q.pc = "txn" ->
            LET r == Transaction(d, DeleteActiveWrites(q))
            IN  IF r.ok THEN Reply(r.db, q, 200) ELSE Reply(r.db, q, 500)
      [] q.pc = "delete" ->
            LET r == AdmissionDelete(d, q.id)
            IN  IF r.ok THEN Reply(r.db, q, 200) ELSE Reply(r.db, q, 500)

(***************************************************************************)
(* /beds                                                                   *)
(***************************************************************************)
\* POST /beds.  status "" is a request without a status.
BedsPostStep(d, q) ==
    CASE q.pc = "find" ->
            IF \E b \in DOMAIN d.beds : d.beds[b].bedNumber = q.key
            THEN Reply(d, q, 400)
            ELSE Goto(d, q, "create")
      [] q.pc = "create" ->
            LET r == BedCreate(d, [bedNumber |-> q.key,
                                   status |-> IF q.status = "" THEN "AVAILABLE"
                                              ELSE q.status])
            IN  IF r.ok THEN Reply(r.db, q, 201) ELSE Reply(r.db, q, 500)

\* PUT /beds/:id.  status "" and patientId NULL are fields the request lacks.
BedsPutStep(d, q) ==
    CASE q.pc = "find" ->
            IF q.id \notin DOMAIN d.beds
            THEN Reply(d, q, 404)
            ELSE IF q.status # "" /\ q.status # d.beds[q.id].status
                    /\ q.status \in {"AVAILABLE", "MAINTENANCE"}
            THEN Goto(d, q, "reset")
            ELSE IF q.status # "" /\ q.status # d.beds[q.id].status
                    /\ q.status = "OCCUPIED" /\ q.patientId = NULL
            THEN Reply(d, q, 400)
            ELSE IF q.patientId # NULL
            THEN Goto(d, q, "patient")
            ELSE Goto(d, q, "notes")
      [] q.pc = "reset" ->
            \* return await prisma.bed.update(...): no response is sent
            LET r == BedUpdate(d, q.id, [status |-> q.status, patientId |-> NULL,
                                         admissionDate |-> NULL,
                                         expectedDischargeDate |-> NULL])
            IN  IF r.ok THEN Return(r.db, q) ELSE Reply(r.db, q, 500)
      [] q.pc = "patient" ->
            IF q.patientId \notin DOMAIN d.patients
            THEN Reply(d, q, 400)
            ELSE Goto(d, q, "occupy")
      [] q.pc = "occupy" ->
            LET r == BedUpdate(d, q.id, [status |-> "OCCUPIED",
                                         patientId |-> q.patientId,
                                         admissionDate |-> Now,
                                         expectedDischargeDate |-> q.expectedDischargeDate])
            IN  IF r.ok THEN Reply(r.db, q, 200) ELSE Reply(r.db, q, 500)
      [] q.pc = "notes" ->
            LET r == BedUpdate(d, q.id, [i \in {} |-> NULL])
            IN  IF r.ok THEN Reply(r.db, q, 200) ELSE Reply(r.db, q, 500)

\* DELETE /beds/:id
BedsDeleteStep(d, q) ==
    CASE q.pc = "find" ->
            IF q.id \notin DOMAIN d.beds
            THEN Reply(d, q, 404)
            ELSE IF d.beds[q.id].status = "OCCUPIED"
            THEN Reply(d, q, 400)
            ELSE Goto(d, q, "active")
      [] q.pc = "active" ->
            IF ActiveAdmissionsOfBed(d, q.id) # {}
            THEN Reply(d, q, 400)
            ELSE Goto(d, q, "delete")
      [] q.pc = "delete" ->
            LET r == BedDelete(d, q.id)
            IN  IF r.ok THEN Reply(r.db, q, 200) ELSE Reply(r.db, q, 500)

(***************************************************************************)
(* /patients                                                               *)
(***************************************************************************)
\* POST /patients
PatientsPostStep(d, q) ==
    CASE q.pc = "find" ->
            IF \E p \in DOMAIN d.patients : d.patients[p].mrn = q.key
            THEN Reply(d, q, 400)
            ELSE Goto(d, q, "create")
      [] q.pc = "create" ->
            LET r == PatientCreate(d, [mrn |-> q.key])
            IN  IF r.ok THEN Reply(r.db, q, 201) ELSE Reply(r.db, q, 500)

\* DELETE /patients/:id
PatientsDeleteStep(d, q) ==
    CASE q.pc = "find" ->
            IF q.id \notin DOMAIN d.patients
            THEN Reply(d, q, 404)
            ELSE Goto(d, q, "appointments")
      [] q.pc = "appointments" ->
            Goto(d, [q EXCEPT !.readFlag = ActiveAppointmentsOfPatient(d, q.id) # {}],
                 "admissions")
      [] q.pc = "admissions" ->
            IF q.readFlag \/ ActiveAdmissionsOfPatient(d, q.id) # {}
            THEN Reply(d, q, 400)
            ELSE Goto(d, q, "delete")
      [] q.pc = "delete" ->
            LET r == PatientDelete(d, q.id)
            IN  IF r.ok THEN Reply(r.db, q, 200) ELSE Reply(r.db, q, 500)

(***************************************************************************)
(* /appointments                                                           *)
(***************************************************************************)
Max(S) == CHOOSE x \in S : \A y \in S : y <= x

\* findFirst({where: {date, status: {not: 'CANCELLED'}}, orderBy: {queueNumber:
\* 'desc'}}) and the number derived from it.  PostgreSQL sorts NULL first in
\* descending order, so a row without a queue number is the one found if there
\* is any, and then (as when no row is found) the number stays 1.
NextQueueNumber(d, date) ==
    LET rows == {a \in DOMAIN d.appointments :
                    /\ d.appointments[a].date = date
                    /\ d.appointments[a].status # "CANCELLED"}
    IN  IF rows = {} \/ \E a \in rows : d.appointments[a].queueNumber = NULL
        THEN 1
        ELSE Max({d.appointments[a].queueNumber : a \in rows}) + 1

\* POST /appointments.  Users never change, so the read of the doctor is folded
\* into the step that reads the patient.
AppointmentsPostStep(d, q) ==
    CASE q.pc = "patient" ->
            IF q.patientId \notin DOMAIN d.patients
            THEN Reply(d, q, 400)
            ELSE IF ~ValidDoctor(q.doctorId)
            THEN Reply(d, q, 400)
            ELSE IF q.status # "CANCELLED"
            THEN Goto(d, q, "queue")
            ELSE Goto(d, [q EXCEPT !.readQueue = NULL], "create")
      [] q.pc = "queue" ->
            Goto(d, [q EXCEPT !.readQueue = NextQueueNumber(d, q.date)], "create")
      [] q.pc = "create" ->
            LET r == AppointmentCreate(d, [patientId |-> q.patientId,
                                           doctorId |-> q.doctorId,
                                           date |-> q.date,
                                           status |-> q.status,
                                           queueNumber |-> q.readQueue])
            IN  IF r.ok THEN Reply(r.db, q, 201) ELSE Reply(r.db, q, 500)

\* A faulty variant of the data below: a cancel clears the queue number.
AppointmentPutDataClearQueue(q) ==
    IF q.status = "" THEN [i \in {} |-> NULL]
    ELSE IF q.status = "CANCELLED" THEN [status |-> q.status, queueNumber |-> NULL]
    ELSE [status |-> q.status]

\* The data of the update of PUT /appointments/:id: status (left alone when the
\* request has none) and notes.
AppointmentPutData(q) ==
    IF q.status = "" THEN [i \in {} |-> NULL] ELSE [status |-> q.status]

\* PUT /appointments/:id
AppointmentsPutStep(d, q) ==
    CASE q.pc = "find" ->
            IF q.id \notin DOMAIN d.appointments
            THEN Reply(d, q, 404)
            ELSE Goto(d, q, "update")
      [] q.pc = "update" ->
            LET r == AppointmentUpdate(d, q.id, AppointmentPutData(q))
            IN  IF r.ok THEN Reply(r.db, q, 200) ELSE Reply(r.db, q, 500)

\* DELETE /appointments/:id
AppointmentsDeleteStep(d, q) ==
    CASE q.pc = "find" ->
            IF q.id \notin DOMAIN d.appointments
            THEN Reply(d, q, 404)
            ELSE Goto(d, q, "delete")
      [] q.pc = "delete" ->
            LET r == AppointmentDelete(d, q.id)
            IN  IF r.ok THEN Reply(r.db, q, 200) ELSE Reply(r.db, q, 500)

(***************************************************************************)
(* /inventory                                                              *)
(***************************************************************************)
\* a || b on numbers: 0 and undefined are falsy.
OrElse(a, b) == IF a = NULL THEN b ELSE a

\* POST /inventory: quantity isInt({min: 0}), reorderLevel isInt({min: 1}),
\* cost isFloat({min: 0}).
InventoryPostStep(d, q) ==
    CASE q.pc = "create" ->
            IF q.body.quantity < 0 \/ q.body.reorderLevel < 1 \/ q.body.cost < 0
            THEN Reply(d, q, 400)
            ELSE LET r == InventoryItemCreate(d, q.body)
                 IN  IF r.ok THEN Reply(r.db, q, 201) ELSE Reply(r.db, q, 500)

\* The data of the update of PUT /inventory/:id, from the body and the item
\* the handler has read.
InventoryPutData(q, item) ==
    [quantity     |-> IF "quantity" \in q.given THEN q.body.quantity ELSE item.quantity,
     reorderLevel |-> OrElse(q.body.reorderLevel, item.reorderLevel),
     cost         |-> OrElse(q.body.cost, item.cost)]

\* PUT /inventory/:id: quantity optional().isInt({min: 0}), nothing else of
\* the body is validated.  The data is kept in body between the two calls.
InventoryPutStep(d, q) ==
    CASE q.pc = "find" ->
            IF "quantity" \in q.given /\ q.body.quantity < 0
            THEN Reply(d, q, 400)
            ELSE IF q.id \notin DOMAIN d.inventory
            THEN Reply(d, q, 404)
            ELSE Goto(d, [q EXCEPT !.body = InventoryPutData(q, d.inventory[q.id])],
                      "update")
      [] q.pc = "update" ->
            LET r == InventoryItemUpdate(d, q.id, q.body)
            IN  IF r.ok THEN Reply(r.db, q, 200) ELSE Reply(r.db, q, 500)

\* DELETE /inventory/:id
InventoryDeleteStep(d, q) ==
    CASE q.pc = "find" ->
            IF q.id \notin DOMAIN d.inventory
            THEN Reply(d, q, 404)
            ELSE Goto(d, q, "delete")
      [] q.pc = "delete" ->
            LET r == InventoryItemDelete(d, q.id)
            IN  IF r.ok THEN Reply(r.db, q, 200) ELSE Reply(r.db, q, 500)

(***************************************************************************)
(* /dashboard/summary.  JavaScript numbers are IEEE 754 doubles: the        *)
(* division and the multiplication of the occupancy rate round to nearest, *)
(* ties to even, to a significand of SignificandBits bits.  A positive     *)
(* double is [sig, exp]: sig is its significand as a sequence of bits from *)
(* the most significant, which is 1, and its value is 0.sig * 2^exp.       *)
(***************************************************************************)
SignificandBits == 53
\* Bits multiplied at a time, so that no intermediate number reaches 2^31.
LimbBits == 20

\* the bits of n < 2^width from the most significant, zeros included
FixedBits(n, width) == [i \in 1..width |-> (n \div 2^(width - i)) % 2]

\* the bits of a natural number below 2^30 from its leading 1; none for 0
BitsOf(n) == FixedBits(n, CHOOSE w \in 0..30 : n < 2^w /\ (w = 0 \/ n >= 2^(w - 1)))

RECURSIVE IntOf(_)
\* the number a sequence of at most 30 bits stands for
IntOf(bits) ==
    LET n == Len(bits)
        half == n \div 2
    IN  IF n = 0 THEN 0
        ELSE IF n = 1 THEN bits[1]
        ELSE IntOf(SubSeq(bits, 1, half)) * 2^(n - half) + IntOf(SubSeq(bits, half + 1, n))

\* bits + 1, one bit longer when every bit is 1
Increment(bits) ==
    LET zeros == {i \in 1..Len(bits) : bits[i] = 0}
    IN  IF zeros = {} THEN <<1>> \o [i \in 1..Len(bits) |-> 0]
        ELSE LET last == CHOOSE i \in zeros : \A j \in zeros : j <= i
             IN  [i \in 1..Len(bits) |->
                     IF i < last THEN bits[i] ELSE IF i = last THEN 1 ELSE 0]

\* Round to nearest, ties to even: the double nearest to 0.bits * 2^exp, bits
\* being more than SignificandBits bits of which the first is 1, and sticky
\* telling that non-zero bits follow them.
RoundToDouble(bits, sticky, exp) ==
    LET sig == SubSeq(bits, 1, SignificandBits)
        round == bits[SignificandBits + 1] = 1
        rest == sticky \/ \E i \in (SignificandBits + 2)..Len(bits) : bits[i] = 1
        up == round /\ (rest \/ sig[SignificandBits] = 1)
        inc == Increment(sig)
    IN  IF ~up THEN [sig |-> sig, exp |-> exp]
        ELSE IF Len(inc) = SignificandBits THEN [sig |-> inc, exp |-> exp]
        ELSE [sig |-> SubSeq(inc, 1, SignificandBits), exp |-> exp + 1]

\* 2^k modulo b, for k <= 2 * 27 and b below 2^15
PowerOfTwoMod(k, b) ==
    IF k <= 27 THEN 2^k % b ELSE ((2^27 % b) * (2^(k - 27) % b)) % b

\* what is left of r after k bits of the binary expansion of r / b
Remainder(r, b, k) == (r * PowerOfTwoMod(k, b)) % b

\* n bits of the binary expansion of r / b, for r < b
Expansion(r, b, n) == [k \in 1..n |-> (2 * Remainder(r, b, k - 1)) \div b]

\* a / b on doubles, for integers a, b in 1..2^7:
\* a / b = (r / s) * 2^(down - up) with 1/2 <= r / s < 1.
DoubleDivide(a, b) ==
    LET down == CHOOSE k \in 0..8 : a < b * 2^k /\ (k = 0 \/ a >= b * 2^(k - 1))
        s == b * 2^down
        up == CHOOSE k \in 0..8 : a * 2^(k + 1) >= s /\ a * 2^k < s
        r == a * 2^up
    IN  RoundToDouble(Expansion(r, s, SignificandBits + 1),
                      Remainder(r, s, SignificandBits + 1) # 0, down - up)

RECURSIVE TimesBits(_, _, _)
\* the bits of bits * m + carry, LimbBits bits at a time, for m below 2^9
TimesBits(bits, m, carry) ==
    LET n == Len(bits)
    IN  IF n <= LimbBits THEN BitsOf(IntOf(bits) * m + carry)
        ELSE LET t == IntOf(SubSeq(bits, n - LimbBits + 1, n)) * m + carry
             IN  TimesBits(SubSeq(bits, 1, n - LimbBits), m, t \div 2^LimbBits)
                     \o FixedBits(t % 2^LimbBits, LimbBits)

\* d * m on doubles, for an integer 1 < m < 2^9
DoubleTimes(d, m) ==
    LET product == TimesBits(d.sig, m, 0)
    IN  RoundToDouble(product \o <<0>>, FALSE,
                      d.exp + Len(product) - SignificandBits)

\* Math.round of a positive double below 2^30: floor(d + 1/2)
MathRound(d) ==
    IF d.exp < 0 THEN 0
    ELSE IntOf(SubSeq(d.sig, 1, d.exp)) + d.sig[d.exp + 1]

\* allBeds > 0 ? Math.round((occupiedBeds / allBeds) * 100) : 0.  The
\* quotient 0 is exact, and so is its product with 100.
OccupancyRate(occupiedBeds, allBeds) ==
    IF allBeds > 0
    THEN IF occupiedBeds = 0 THEN 0
         ELSE MathRound(DoubleTimes(DoubleDivide(occupiedBeds, allBeds), 100))
    ELSE 0

\* findMany({take: n}): at most n rows.  The model keeps neither the
\* admissionDate nor the time that order them, so which n is left open.
Take(rows, n) ==
    IF Cardinality(rows) <= n THEN rows
    ELSE CHOOSE some \in SUBSET rows : Cardinality(some) = n

\* GET /dashboard/summary: today is the date Now.
DashboardSummaryStep(d, q) ==
    CASE q.pc = "totalPatients" ->
            Goto(d, [q EXCEPT !.json.totalPatients = Cardinality(DOMAIN d.patients)],
                 "totalAppointments")
      [] q.pc = "totalAppointments" ->
            Goto(d, [q EXCEPT !.json.totalAppointments =
                                  Cardinality(DOMAIN d.appointments)],
                 "appointmentsToday")
      [] q.pc = "appointmentsToday" ->
            Goto(d, [q EXCEPT !.json.appointmentsToday =
                                  Cardinality({a \in DOMAIN d.appointments :
                                                  d.appointments[a].date = Now})],
                 "allBeds")
      [] q.pc = "allBeds" ->
            Goto(d, [q EXCEPT !.json.totalBeds = Cardinality(DOMAIN d.beds)],
                 "occupiedBeds")
      [] q.pc = "occupiedBeds" ->
            Goto(d, [q EXCEPT !.json.occupiedBeds =
                                  Cardinality({b \in DOMAIN d.beds :
                                                  d.beds[b].status = "OCCUPIED"})],
                 "availableBeds")
      [] q.pc = "availableBeds" ->
            Goto(d, [q EXCEPT !.json.availableBeds =
                                  Cardinality({b \in DOMAIN d.beds :
                                                  d.beds[b].status = "AVAILABLE"})],
                 "lowStockItems")
      [] q.pc = "lowStockItems" ->
            Goto(d, [q EXCEPT !.json.lowStockItems =
                                  Cardinality({i \in DOMAIN d.inventory :
                                                  d.inventory[i].quantity
                                                      <= d.inventory[i].reorderLevel})],
                 "recentAdmissions")
      [] q.pc = "recentAdmissions" ->
            Goto(d, [q EXCEPT !.json.recentAdmissions = Take(DOMAIN d.admissions, 5)],
                 "upcomingAppointments")
      [] q.pc = "upcomingAppointments" ->
            LET upcoming == {a \in DOMAIN d.appointments :
                                /\ d.appointments[a].date >= Now
                                /\ d.appointments[a].status \in {"SCHEDULED", "IN_QUEUE"}}
                json == [q.json EXCEPT
                            !.upcomingAppointments = Take(upcoming, 5),
                            !.occupancyRate = OccupancyRate(q.json.occupiedBeds,
                                                            q.json.totalBeds)]
            IN  Reply(d, [q EXCEPT !.json = json], 200)

(***************************************************************************)
(* Serving requests                                                        *)
(***************************************************************************)
\* One awaited store call of the handler of q, with what follows it up to the
\* next await or the response.
Step(d, q) ==
    CASE q.op = "POST /admissions"       -> AdmissionsPostStep(d, q)
      [] q.op = "PUT /admissions"        -> AdmissionsPutStep(d, q)
      [] q.op = "DELETE /admissions"     -> AdmissionsDeleteStep(d, q)
      [] q.op = "POST /beds"             -> BedsPostStep(d, q)
      [] q.op = "PUT /beds"              -> BedsPutStep(d, q)
      [] q.op = "DELETE /beds"           -> BedsDeleteStep(d, q)
      [] q.op = "POST /patients"         -> PatientsPostStep(d, q)
      [] q.op = "DELETE /patients"       -> PatientsDeleteStep(d, q)
      [] q.op = "POST /appointments"     -> AppointmentsPostStep(d, q)
      [] q.op = "PUT /appointments"      -> AppointmentsPutStep(d, q)
      [] q.op = "DELETE /appointments"   -> AppointmentsDeleteStep(d, q)
      [] q.op = "POST /inventory"        -> InventoryPostStep(d, q)
      [] q.op = "PUT /inventory"         -> InventoryPutStep(d, q)
      [] q.op = "DELETE /inventory"      -> InventoryDeleteStep(d, q)
      [] q.op = "GET /dashboard/summary" -> DashboardSummaryStep(d, q)

RECURSIVE Run(_, _)
\* The handler of q from its first store call to its end.
Run(d, q) ==
    IF q.pc = "done" THEN [db |-> d, req |-> q]
    ELSE LET o == Step(d, q) IN Run(o.db, o.req)

\* The status of the response to q (NULL: none is sent) and the store it
\* leaves, when q is served from store d with no other request in flight.
Response(d, q) == Run(d, q).req.resp
After(d, q) == Run(d, q).db

\* A request served with no other request in flight.
Serve(q) == db' = After(db, q)

\* A create served with no other request in flight.  One that inserts a row
\* is offered while the model has an id left for the row.
ServeCreate(q, table, max) ==
    LET after == After(db, q)
    IN  /\ after.seq[table] # db.seq[table] => db.seq[table] < max
        /\ db' = after

(***************************************************************************)
(* The requests, with the fields express-validator lets through            *)
(***************************************************************************)
AdmissionsPostRequest(p, b, doc, e) ==
    [NoRequest EXCEPT !.op = "POST /admissions", !.pc = "patient",
                      !.patientId = p, !.bedId = b, !.doctorId = doc,
                      !.expectedDischargeDate = e]

AdmissionsPutRequest(id, s) ==
    [NoRequest EXCEPT !.op = "PUT /admissions", !.pc = "find", !.id = id, !.status = s]

AdmissionsDeleteRequest(id) ==
    [NoRequest EXCEPT !.op = "DELETE /admissions", !.pc = "find", !.id = id]

BedsPostRequest(n, s) ==
    [NoRequest EXCEPT !.op = "POST /beds", !.pc = "find", !.key = n, !.status = s]

BedsPutRequest(id, s, p, e) ==
    [NoRequest EXCEPT !.op = "PUT /beds", !.pc = "find", !.id = id, !.status = s,
                      !.patientId = p, !.expectedDischargeDate = e]

BedsDeleteRequest(id) ==
    [NoRequest EXCEPT !.op = "DELETE /beds", !.pc = "find", !.id = id]

PatientsPostRequest(m) ==
    [NoRequest EXCEPT !.op = "POST /patients", !.pc = "find", !.key = m]

PatientsDeleteRequest(id) ==
    [NoRequest EXCEPT !.op = "DELETE /patients", !.pc = "find", !.id = id]

AppointmentsPostRequest(p, doc, date, s) ==
    [NoRequest EXCEPT !.op = "POST /appointments", !.pc = "patient",
                      !.patientId = p, !.doctorId = doc, !.date = date, !.status = s]

AppointmentsPutRequest(id, s) ==
    [NoRequest EXCEPT !.op = "PUT /appointments", !.pc = "find", !.id = id,
                      !.status = s]

AppointmentsDeleteRequest(id) ==
    [NoRequest EXCEPT !.op = "DELETE /appointments", !.pc = "find", !.id = id]

InventoryPostRequest(n, r, c) ==
    [NoRequest EXCEPT !.op = "POST /inventory", !.pc = "create",
                      !.body = [quantity |-> n, reorderLevel |-> r, cost |-> c],
                      !.given = {"quantity", "reorderLevel", "cost"}]

\* given: the fields the body has; n counts only with "quantity" among them,
\* a reorderLevel or cost that the body lacks is NULL.
InventoryPutRequest(id, given, n, r, c) ==
    [NoRequest EXCEPT !.op = "PUT /inventory", !.pc = "find", !.id = id,
                      !.body = [quantity |-> n, reorderLevel |-> r, cost |-> c],
                      !.given = given]

InventoryDeleteRequest(id) ==
    [NoRequest EXCEPT !.op = "DELETE /inventory", !.pc = "find", !.id = id]

DashboardSummaryRequest ==
    [NoRequest EXCEPT !.op = "GET /dashboard/summary", !.pc = "totalPatients"]

(***************************************************************************)
(* Spec: the bed, admission and patient routes, one request at a time.     *)
(* Ids that no row has (not yet, or no more) are inputs like the others.  *)
(***************************************************************************)
Connections == {"c1", "c2"}

Init ==
    /\ db = EmptyDb
    /\ reqs = [c \in Connections |-> NoRequest]

PatientsPost ==
    \E m \in Mrns :
        /\ UNCHANGED reqs
        /\ ServeCreate(PatientsPostRequest(m), "patients", MaxPatients)

PatientsDelete ==
    \E id \in PatientIds :
        /\ UNCHANGED reqs
        /\ Serve(PatientsDeleteRequest(id))

BedsPost ==
    \E n \in BedNumbers, s \in {""} \cup BedStatus :
        /\ UNCHANGED reqs
        /\ ServeCreate(BedsPostRequest(n, s), "beds", MaxBeds)

BedsPut ==
    \E id \in BedIds, s \in {""} \cup BedStatus,
       p \in {NULL} \cup PatientIds, e \in {NULL, Now} :
        /\ UNCHANGED reqs
        /\ Serve(BedsPutRequest(id, s, p, e))

BedsDelete ==
    \E id \in BedIds :
        /\ UNCHANGED reqs
        /\ Serve(BedsDeleteRequest(id))

AdmissionsPost ==
    \E p \in PatientIds, b \in BedIds, doc \in UserInputs, e \in {NULL, Now} :
        /\ UNCHANGED reqs
        /\ ServeCreate(AdmissionsPostRequest(p, b, doc, e), "admissions", MaxAdmissions)

AdmissionsPut ==
    \E id \in AdmissionIds, s \in {""} \cup AdmissionStatus :
        /\ UNCHANGED reqs
        /\ Serve(AdmissionsPutRequest(id, s))

AdmissionsDelete ==
    \E id \in AdmissionIds :
        /\ UNCHANGED reqs
        /\ Serve(AdmissionsDeleteRequest(id))

Next ==
    \/ PatientsPost
    \/ PatientsDelete
    \/ BedsPost
    \/ BedsPut
    \/ BedsDelete
    \/ AdmissionsPost
    \/ AdmissionsPut
    \/ AdmissionsDelete

Spec == Init /\ [][Next]_vars

(***************************************************************************)
(* SpecAppointments: the appointment routes, with patients created and     *)
(* deleted, one request at a time.                                         *)
(***************************************************************************)
AppointmentsPost ==
    \E p \in PatientIds, doc \in UserInputs, date \in Dates, s \in AppointmentStatus :
        /\ UNCHANGED reqs
        /\ ServeCreate(AppointmentsPostRequest(p, doc, date, s), "appointments",
                       MaxAppointments)

AppointmentsPut ==
    \E id \in AppointmentIds, s \in {""} \cup AppointmentStatus :
        /\ UNCHANGED reqs
        /\ Serve(AppointmentsPutRequest(id, s))

AppointmentsDelete ==
    \E id \in AppointmentIds :
        /\ UNCHANGED reqs
        /\ Serve(AppointmentsDeleteRequest(id))

NextAppointments ==
    \/ PatientsPost
    \/ PatientsDelete
    \/ AppointmentsPost
    \/ AppointmentsPut
    \/ AppointmentsDelete

SpecAppointments == Init /\ [][NextAppointments]_vars

(***************************************************************************)
(* SpecInventory: the inventory routes, one request at a time.             *)
(***************************************************************************)
InventoryPost ==
    \E n \in Numbers, r \in Numbers, c \in Numbers :
        /\ UNCHANGED reqs
        /\ ServeCreate(InventoryPostRequest(n, r, c), "inventory", MaxItems)

InventoryPut ==
    \E id \in ItemIds, given \in {{}, {"quantity"}},
       n \in Numbers, r \in Numbers, c \in Numbers :
        /\ UNCHANGED reqs
        /\ Serve(InventoryPutRequest(id, given, n, r, c))

InventoryDelete ==
    \E id \in ItemIds :
        /\ UNCHANGED reqs
        /\ Serve(InventoryDeleteRequest(id))

NextInventory ==
    \/ InventoryPost
    \/ InventoryPut
    \/ InventoryDelete

SpecInventory == Init /\ [][NextInventory]_vars

(***************************************************************************)
(* SpecDashboard: the summary of a ward of any size up to MaxDashboardBeds *)
(* with any number of its beds OCCUPIED, beds as POST /beds creates them.  *)
(* A connection keeps the last response it received.                       *)
(***************************************************************************)
DashboardBed(i, occupied) ==
    [bedNumber |-> ToString(i),
     status |-> IF i <= occupied THEN "OCCUPIED" ELSE "AVAILABLE",
     patientId |-> NULL, admissionDate |-> NULL, expectedDischargeDate |-> NULL]

DashboardDb(total, occupied) ==
    [EmptyDb EXCEPT
        !.beds = [i \in 1..total |-> DashboardBed(i, occupied)],
        !.seq.beds = total]

InitDashboard ==
    /\ \E total \in 0..MaxDashboardBeds, occupied \in 0..MaxDashboardBeds :
          /\ occupied <= total
          /\ db = DashboardDb(total, occupied)
    /\ reqs = [c \in Connections |-> NoRequest]

DashboardSummary ==
    \E c \in Connections :
        /\ reqs' = [reqs EXCEPT ![c] = Run(db, DashboardSummaryRequest).req]
        /\ UNCHANGED db

NextDashboard ==
    \/ DashboardSummary

SpecDashboard == InitDashboard /\ [][NextDashboard]_vars

(***************************************************************************)
(* SpecSeed: runs of the seed script, each from its start to its end with  *)
(* nothing else writing to the store.  The script seeds beds of six wards; *)
(* the model seeds the first bed of two.  The rows findMany returns come   *)
(* in no specified order: which patient is first, which AVAILABLE bed is   *)
(* taken and which doctor is first are inputs of a run.  The doctors of    *)
(* the script are drawn from the DOCTOR users of the model.                *)
(***************************************************************************)
\* The patients of the script, each by prisma.patient.upsert({where: {mrn}});
\* the update of an existing patient writes no modelled field.
SeedPatients(d) ==
    LET upsert(e, mrn) ==
            IF \E p \in DOMAIN e.patients : e.patients[p].mrn = mrn
            THEN e
            ELSE PatientCreate(e, [mrn |-> mrn]).db
    IN  upsert(upsert(upsert(d, "MRN0001"), "MRN0002"), "MRN0003")

\* The beds of the script, each by prisma.bed.upsert({where: {bedNumber}});
\* the update of an existing bed writes ward and status.
SeedBeds(d) ==
    LET upsert(e, bedNumber) ==
            IF \E b \in DOMAIN e.beds : e.beds[b].bedNumber = bedNumber
            THEN BedUpdate(e, CHOOSE b \in DOMAIN e.beds :
                                  e.beds[b].bedNumber = bedNumber,
                           [status |-> "AVAILABLE"]).db
            ELSE BedCreate(e, [bedNumber |-> bedNumber, status |-> "AVAILABLE"]).db
    IN  upsert(upsert(d, "A-101"), "B-101")

\* The inventory items of the script, each by prisma.inventoryItem.create.
SeedInventory(d) ==
    LET create(e, item) == InventoryItemCreate(e, item).db
    IN  create(create(create(d,
            [quantity |-> 500, reorderLevel |-> 100, cost |-> 1]),
            [quantity |-> 50, reorderLevel |-> 20, cost |-> 11]),
            [quantity |-> 15, reorderLevel |-> 5, cost |-> 120])

\* The appointments of the script for patients1 and doctors as found.
SeedAppointments(d, patients1, doctors) ==
    LET create(e, appointment) == AppointmentCreate(e, appointment).db
    IN  create(create(create(d,
            [patientId |-> patients1[1], doctorId |-> doctors[1], date |-> Now,
             status |-> "SCHEDULED", queueNumber |-> 1]),
            [patientId |-> patients1[2], doctorId |-> doctors[1], date |-> Now,
             status |-> "SCHEDULED", queueNumber |-> 2]),
            [patientId |-> patients1[3], doctorId |-> doctors[2], date |-> Now + 1,
             status |-> "SCHEDULED", queueNumber |-> 1])

\* The sample admission: the bed is updated, then the admission created.
SeedAdmission(d, patient, bed, doctor) ==
    LET updated == BedUpdate(d, bed, [status |-> "OCCUPIED", patientId |-> patient,
                                      admissionDate |-> Now]).db
    IN  AdmissionCreate(updated, [patientId |-> patient, bedId |-> bed,
                                  doctorId |-> doctor, status |-> "ACTIVE"]).db

\* main() of the seed script.
SeedRun ==
    LET seeded == SeedInventory(SeedBeds(SeedPatients(db)))
        found == {u \in DOMAIN Users : Users[u] = "DOCTOR"}
    IN  /\ db.seq.admissions < MaxSeedRuns
        /\ UNCHANGED reqs
        /\ \E patients1 \in [1..3 -> DOMAIN seeded.patients],
              doctors \in [1..2 -> found],
              patient \in DOMAIN seeded.patients :
              /\ \A i \in 1..3, j \in 1..3 : i # j => patients1[i] # patients1[j]
              /\ LET booked == SeedAppointments(seeded, patients1, doctors)
                     beds == {b \in DOMAIN booked.beds :
                                  booked.beds[b].status = "AVAILABLE"}
                 IN  IF beds = {}
                     THEN db' = booked
                     ELSE \E bed \in beds :
                              db' = SeedAdmission(booked, patient, bed, doctors[1])

NextSeed ==
    \/ SeedRun

SpecSeed == Init /\ [][NextSeed]_vars

(***************************************************************************)
(* SpecConc: concurrent requests to the admission routes.  Each connection *)
(* carries one request at a time; a step of NextConc is the arrival of a   *)
(* request or one awaited store call of a request in flight, so the calls  *)
(* of different requests interleave in every order.  The store starts with *)
(* a patient and two free beds in it, rows as the seed script writes them. *)
(***************************************************************************)
SeededPatients == (1 :> [mrn |-> "MRN1"])

SeededBed(n) ==
    [bedNumber |-> n, status |-> "AVAILABLE", patientId |-> NULL,
     admissionDate |-> NULL, expectedDischargeDate |-> NULL]

SeededBeds == (1 :> SeededBed("A-101")) @@ (2 :> SeededBed("B-101"))

SeededDb ==
    [EmptyDb EXCEPT
        !.patients = SeededPatients,
        !.beds = SeededBeds,
        !.seq.patients = Cardinality(DOMAIN SeededPatients),
        !.seq.beds = Cardinality(DOMAIN SeededBeds)]

InitConc ==
    /\ db = SeededDb
    /\ reqs = [c \in Connections |-> NoRequest]

Idle(c) == reqs[c].op = "none"

Receive(c, q) ==
    /\ reqs' = [reqs EXCEPT ![c] = q]
    /\ UNCHANGED db

\* The next store call of the request on connection c.  A request that ends
\* frees its connection.
Await(c) ==
    LET o == Step(db, reqs[c])
    IN  /\ db' = o.db
        /\ reqs' = [reqs EXCEPT ![c] = IF o.req.pc = "done" THEN NoRequest ELSE o.req]

InFlight(op) == Cardinality({c \in Connections : reqs[c].op = op})

ConcAdmissionsPost(c) ==
    \/ \E p \in DOMAIN SeededPatients, b \in DOMAIN SeededBeds :
          /\ Idle(c)
          /\ db.seq.admissions + InFlight("POST /admissions") < MaxConcAdmissions
          /\ Receive(c, AdmissionsPostRequest(p, b, "d1", NULL))
    \/ /\ reqs[c].op = "POST /admissions"
       /\ Await(c)

ConcAdmissionsPut(c) ==
    \/ \E id \in ConcAdmissionIds, s \in {""} \cup AdmissionStatus :
          /\ Idle(c)
          /\ Receive(c, AdmissionsPutRequest(id, s))
    \/ /\ reqs[c].op = "PUT /admissions"
       /\ Await(c)

ConcAdmissionsDelete(c) ==
    \/ \E id \in ConcAdmissionIds :
          /\ Idle(c)
          /\ Receive(c, AdmissionsDeleteRequest(id))
    \/ /\ reqs[c].op = "DELETE /admissions"
       /\ Await(c)

NextConc ==
    \E c \in Connections :
        \/ ConcAdmissionsPost(c)
        \/ ConcAdmissionsPut(c)
        \/ ConcAdmissionsDelete(c)

SpecConc == InitConc /\ [][NextConc]_vars

(***************************************************************************)
(* SpecConcBeds: concurrent requests to the bed routes and the admission   *)
(* routes around one bed.  The store starts with two patients and one free *)
(* bed in it, rows as the seed script writes them.                         *)
(***************************************************************************)
SeededWardPatients == (1 :> [mrn |-> "MRN1"]) @@ (2 :> [mrn |-> "MRN2"])

SeededWardBeds == (1 :> SeededBed("A-101"))

SeededWardDb ==
    [EmptyDb EXCEPT
        !.patients = SeededWardPatients,
        !.beds = SeededWardBeds,
        !.seq.patients = Cardinality(DOMAIN SeededWardPatients),
        !.seq.beds = Cardinality(DOMAIN SeededWardBeds)]

InitConcBeds ==
    /\ db = SeededWardDb
    /\ reqs = [c \in Connections |-> NoRequest]

ConcBedsAdmit(c) ==
    \/ \E p \in DOMAIN SeededWardPatients, b \in DOMAIN SeededWardBeds :
          /\ Idle(c)
          /\ db.seq.admissions + InFlight("POST /admissions") < MaxWardAdmissions
          /\ Receive(c, AdmissionsPostRequest(p, b, "d1", NULL))
    \/ /\ reqs[c].op = "POST /admissions"
       /\ Await(c)

ConcBedsDischarge(c) ==
    \/ \E id \in WardAdmissionIds, s \in {""} \cup AdmissionStatus :
          /\ Idle(c)
          /\ Receive(c, AdmissionsPutRequest(id, s))
    \/ /\ reqs[c].op = "PUT /admissions"
       /\ Await(c)

ConcBedsAdmissionDelete(c) ==
    \/ \E id \in WardAdmissionIds :
          /\ Idle(c)
          /\ Receive(c, AdmissionsDeleteRequest(id))
    \/ /\ reqs[c].op = "DELETE /admissions"
       /\ Await(c)

ConcBedsPut(c) ==
    \/ \E id \in DOMAIN SeededWardBeds, s \in {""} \cup BedStatus,
          p \in {NULL} \cup DOMAIN SeededWardPatients :
          /\ Idle(c)
          /\ Receive(c, BedsPutRequest(id, s, p, NULL))
    \/ /\ reqs[c].op = "PUT /beds"
       /\ Await(c)

ConcBedsDelete(c) ==
    \/ \E id \in DOMAIN SeededWardBeds :
          /\ Idle(c)
          /\ Receive(c, BedsDeleteRequest(id))
    \/ /\ reqs[c].op = "DELETE /beds"
       /\ Await(c)

NextConcBeds ==
    \E c \in Connections :
        \/ ConcBedsAdmit(c)
        \/ ConcBedsPut(c)
        \/ ConcBedsDelete(c)
        \/ ConcBedsDischarge(c)
        \/ ConcBedsAdmissionDelete(c)

SpecConcBeds == InitConcBeds /\ [][NextConcBeds]_vars

(***************************************************************************)
(* SpecConcPatients: the delete of a patient concurrent with appointment   *)
(* creates and admits, from the store SpecConc starts with.                *)
(***************************************************************************)
ConcPatientsDelete(c) ==
    \/ \E id \in DOMAIN SeededPatients :
          /\ Idle(c)
          /\ Receive(c, PatientsDeleteRequest(id))
    \/ /\ reqs[c].op = "DELETE /patients"
       /\ Await(c)

ConcAppointmentsPost(c) ==
    \/ \E p \in DOMAIN SeededPatients, date \in Dates, s \in {"SCHEDULED", "COMPLETED"} :
          /\ Idle(c)
          /\ db.seq.appointments + InFlight("POST /appointments") < MaxAppointments
          /\ Receive(c, AppointmentsPostRequest(p, "d1", date, s))
    \/ /\ reqs[c].op = "POST /appointments"
       /\ Await(c)

NextConcPatients ==
    \E c \in Connections :
        \/ ConcPatientsDelete(c)
        \/ ConcAppointmentsPost(c)
        \/ ConcAdmissionsPost(c)

SpecConcPatients == InitConc /\ [][NextConcPatients]_vars

(***************************************************************************)
(* SpecConcCreate: concurrent creates of patients and of beds, from the    *)
(* empty store.                                                            *)
(***************************************************************************)
ConcPatientsPost(c) ==
    \/ \E m \in Mrns :
          /\ Idle(c)
          /\ db.seq.patients + InFlight("POST /patients") < MaxConcCreates
          /\ Receive(c, PatientsPostRequest(m))
    \/ /\ reqs[c].op = "POST /patients"
       /\ Await(c)

ConcBedsPost(c) ==
    \/ \E n \in BedNumbers, s \in {""} \cup BedStatus :
          /\ Idle(c)
          /\ db.seq.beds + InFlight("POST /beds") < MaxConcCreates
          /\ Receive(c, BedsPostRequest(n, s))
    \/ /\ reqs[c].op = "POST /beds"
       /\ Await(c)

NextConcCreate ==
    \E c \in Connections :
        \/ ConcPatientsPost(c)
        \/ ConcBedsPost(c)

SpecConcCreate == Init /\ [][NextConcCreate]_vars

(***************************************************************************)
(* SpecSeededBeds: bed updates and the admission routes, one request at a  *)
(* time, on the seeded store of SpecConc (a patient and two free beds).    *)
(***************************************************************************)
SeededBedsPut ==
    \E id \in DOMAIN SeededBeds, s \in {""} \cup BedStatus,
       p \in {NULL} \cup DOMAIN SeededPatients, e \in {NULL, Now} :
        /\ UNCHANGED reqs
        /\ Serve(BedsPutRequest(id, s, p, e))

SeededAdmissionsPost ==
    \E p \in DOMAIN SeededPatients, b \in DOMAIN SeededBeds :
        /\ UNCHANGED reqs
        /\ ServeCreate(AdmissionsPostRequest(p, b, "d1", NULL), "admissions",
                       MaxAdmissions)

NextSeededBeds ==
    \/ SeededBedsPut
    \/ SeededAdmissionsPost
    \/ AdmissionsPut
    \/ AdmissionsDelete

SpecSeededBeds == InitConc /\ [][NextSeededBeds]_vars

(***************************************************************************)
(* SpecIntegrity: the routes that write or delete rows of the tables the   *)
(* foreign keys join, one request at a time, on the seeded store of        *)
(* SpecConc.                                                               *)
(***************************************************************************)
IntegrityAppointmentsPost ==
    \E p \in PatientIds, doc \in UserInputs, s \in {"SCHEDULED", "COMPLETED"} :
        /\ UNCHANGED reqs
        /\ ServeCreate(AppointmentsPostRequest(p, doc, Now, s), "appointments",
                       MaxIntegrityAppointments)

IntegrityAppointmentsDelete ==
    \E id \in 1..MaxIntegrityAppointments :
        /\ UNCHANGED reqs
        /\ Serve(AppointmentsDeleteRequest(id))

NextIntegrity ==
    \/ PatientsDelete
    \/ BedsPut
    \/ BedsDelete
    \/ AdmissionsPost
    \/ AdmissionsPut
    \/ AdmissionsDelete
    \/ IntegrityAppointmentsPost
    \/ IntegrityAppointmentsDelete

SpecIntegrity == InitConc /\ [][NextIntegrity]_vars

(***************************************************************************)
(* SpecConcDashboard: dashboard summaries concurrent with bed creates, on  *)
(* a store that starts empty.                                              *)
(***************************************************************************)
ConcDashboardSummary(c) ==
    \/ /\ Idle(c)
       /\ Receive(c, DashboardSummaryRequest)
    \/ /\ reqs[c].op = "GET /dashboard/summary"
       /\ Await(c)

NextConcDashboard ==
    \E c \in Connections :
        \/ ConcDashboardSummary(c)
        \/ ConcBedsPost(c)

SpecConcDashboard == Init /\ [][NextConcDashboard]_vars

(***************************************************************************)
(* SpecAppointmentUpdates: creates and updates of the appointments of one  *)
(* day of the seeded patient, one request at a time.                       *)
(***************************************************************************)
DayAppointmentsPost ==
    \E p \in DOMAIN SeededPatients, s \in AppointmentStatus :
        /\ UNCHANGED reqs
        /\ ServeCreate(AppointmentsPostRequest(p, "d1", Now, s), "appointments",
                       MaxUpdatedAppointments)

DayAppointmentsPut ==
    \E id \in 1..MaxUpdatedAppointments, s \in {""} \cup AppointmentStatus :
        /\ UNCHANGED reqs
        /\ Serve(AppointmentsPutRequest(id, s))

NextAppointmentUpdates ==
    \/ DayAppointmentsPost
    \/ DayAppointmentsPut

SpecAppointmentUpdates == InitConc /\ [][NextAppointmentUpdates]_vars

(***************************************************************************)
(* SpecConcAppointments: concurrent appointment creates for the seeded     *)
(* patient.                                                                *)
(***************************************************************************)
NextConcAppointments ==
    \E c \in Connections :
        \/ ConcAppointmentsPost(c)

SpecConcAppointments == InitConc /\ [][NextConcAppointments]_vars

(***************************************************************************)
(* SpecConcAdmit: concurrent Admit requests for the one free bed of the    *)
(* ward of SpecConcBeds, by its two patients.                              *)
(***************************************************************************)
ConcAdmit(c) ==
    \/ \E p \in DOMAIN SeededWardPatients, b \in DOMAIN SeededWardBeds :
          /\ Idle(c)
          /\ db.seq.admissions + InFlight("POST /admissions") < MaxConcAdmissions
          /\ Receive(c, AdmissionsPostRequest(p, b, "d1", NULL))
    \/ /\ reqs[c].op = "POST /admissions"
       /\ Await(c)

NextConcAdmit ==
    \E c \in Connections :
        \/ ConcAdmit(c)

SpecConcAdmit == InitConcBeds /\ [][NextConcAdmit]_vars

(***************************************************************************)
(* Properties of the bed/admission pairing (Spec)                          *)
(***************************************************************************)
\* C1: in every state the requests can reach, a bed is OCCUPIED if and only
\* if exactly one ACTIVE admission references it.
C1_OccupiedIffOneActiveAdmission ==
    \A b \in DOMAIN db.beds :
        (db.beds[b].status = "OCCUPIED")
            <=> (Cardinality(ActiveAdmissionsOfBed(db, b)) = 1)

\* C2: under every interleaving of concurrent requests, no two ACTIVE
\* admissions have the same patient.
C2_OneActiveAdmissionPerPatient ==
    \A p \in DOMAIN db.patients :
        Cardinality(ActiveAdmissionsOfPatient(db, p)) <= 1

\* C3: the bed of every ACTIVE admission is OCCUPIED by the admission's
\* patient, and the patient of every OCCUPIED bed is that of an ACTIVE
\* admission on the bed.
C3_ActiveAdmissionPairsWithOccupiedBed ==
    /\ \A a \in DOMAIN db.admissions :
          db.admissions[a].status = "ACTIVE" =>
              /\ db.admissions[a].bedId \in DOMAIN db.beds
              /\ db.beds[db.admissions[a].bedId].status = "OCCUPIED"
              /\ db.beds[db.admissions[a].bedId].patientId = db.admissions[a].patientId
    /\ \A b \in DOMAIN db.beds :
          db.beds[b].status = "OCCUPIED" =>
              \E a \in ActiveAdmissionsOfBed(db, b) :
                  db.admissions[a].patientId = db.beds[b].patientId

\* The condition under which C4 promises that an Admit succeeds.
AdmitPrecondition(d, p, b, doc) ==
    /\ b \in DOMAIN d.beds
    /\ d.beds[b].status = "AVAILABLE"
    /\ p \in DOMAIN d.patients
    /\ ActiveAdmissionsOfPatient(d, p) = {}
    /\ doc \in DOMAIN Users
    /\ Users[doc] = "DOCTOR"

\* C4: an Admit of an existing patient without ACTIVE admission into an
\* AVAILABLE bed by a doctor is answered 201, and afterwards the bed is
\* OCCUPIED by the patient and a new ACTIVE admission of the patient in the
\* bed exists.
C4_AdmitPostcondition ==
    \A p \in PatientIds, b \in BedIds, doc \in UserInputs, e \in {NULL, Now} :
        AdmitPrecondition(db, p, b, doc) =>
            LET served == Run(db, AdmissionsPostRequest(p, b, doc, e))
                after == served.db
            IN  /\ served.req.resp = 201
                /\ after.beds[b].status = "OCCUPIED"
                /\ after.beds[b].patientId = p
                /\ \E a \in DOMAIN after.admissions \ DOMAIN db.admissions :
                      /\ after.admissions[a].status = "ACTIVE"
                      /\ after.admissions[a].bedId = b
                      /\ after.admissions[a].patientId = p

\* An Admit has succeeded: its admission is ACTIVE in the bed it occupied.
C4_Witness ==
    \E a \in DOMAIN db.admissions :
        /\ db.admissions[a].status = "ACTIVE"
        /\ db.admissions[a].bedId \in DOMAIN db.beds
        /\ db.beds[db.admissions[a].bedId].status = "OCCUPIED"
        /\ db.beds[db.admissions[a].bedId].patientId = db.admissions[a].patientId
        /\ db.beds[db.admissions[a].bedId].admissionDate # NULL

\* C5: an update of an ACTIVE admission to DISCHARGED or TRANSFERRED leaves
\* the admission with the requested status and its bed AVAILABLE with
\* patientId, admissionDate and expectedDischargeDate null.
C5_DischargePostcondition ==
    \A a \in DOMAIN db.admissions, s \in {"DISCHARGED", "TRANSFERRED"} :
        db.admissions[a].status = "ACTIVE" =>
            LET after == After(db, AdmissionsPutRequest(a, s))
                bed == after.beds[db.admissions[a].bedId]
            IN  /\ after.admissions[a].status = s
                /\ bed.status = "AVAILABLE"
                /\ bed.patientId = NULL
                /\ bed.admissionDate = NULL
                /\ bed.expectedDischargeDate = NULL

\* A discharge or transfer has been served: the admission is closed, with
\* its discharge date, and its bed is free.
C5_Witness ==
    \E a \in DOMAIN db.admissions :
        /\ db.admissions[a].status \in {"DISCHARGED", "TRANSFERRED"}
        /\ db.admissions[a].dischargeDate # NULL
        /\ db.beds[db.admissions[a].bedId].status = "AVAILABLE"
        /\ db.beds[db.admissions[a].bedId].patientId = NULL

\* C23: the delete of an ACTIVE admission is answered 200, removes the
\* admission and leaves its bed AVAILABLE with patientId, admissionDate and
\* expectedDischargeDate null, every other row as it was; the patient then
\* has no ACTIVE admission and an Admit of the patient to the bed succeeds.
C23_DeleteActiveFreesBed ==
    \A a \in DOMAIN db.admissions :
        db.admissions[a].status = "ACTIVE" =>
            LET served == Run(db, AdmissionsDeleteRequest(a))
                after == served.db
                p == db.admissions[a].patientId
                b == db.admissions[a].bedId
            IN  /\ served.req.resp = 200
                /\ after.admissions = Remove(db.admissions, a)
                /\ after.beds = [db.beds EXCEPT ![b] = Merge(@, FreeBed)]
                /\ after.beds[b].status = "AVAILABLE"
                /\ after.beds[b].patientId = NULL
                /\ after.beds[b].admissionDate = NULL
                /\ after.beds[b].expectedDischargeDate = NULL
                /\ after.patients = db.patients
                /\ ActiveAdmissionsOfPatient(after, p) = {}
                /\ Response(after, AdmissionsPostRequest(p, b, "d1", NULL)) = 201

\* An admission has been deleted and has left its bed free: the patient can
\* be admitted to it again.
C23_Witness ==
    \E p \in DOMAIN db.patients, b \in DOMAIN db.beds :
        /\ db.seq.admissions > 0
        /\ db.admissions = EmptyTable
        /\ db.beds[b] = Merge(db.beds[b], FreeBed)
        /\ Response(db, AdmissionsPostRequest(p, b, "d1", NULL)) = 201

\* C24: an update of an admission that does not take it from ACTIVE to
\* another status (no status in the request, status ACTIVE, or an admission
\* that is not ACTIVE) changes no bed and leaves the status, bedId, patientId
\* and dischargeDate of the admission as they were; the delete of an
\* admission that is not ACTIVE changes no bed.
C24_SimpleUpdateAndDeleteLeaveBeds ==
    \A a \in DOMAIN db.admissions :
        /\ \A s \in {""} \cup AdmissionStatus :
              s \in {"", "ACTIVE"} \/ db.admissions[a].status # "ACTIVE" =>
                  LET served == Run(db, AdmissionsPutRequest(a, s))
                  IN  /\ served.req.resp = 200
                      /\ served.db.beds = db.beds
                      /\ served.db.admissions[a].status = db.admissions[a].status
                      /\ served.db.admissions[a].bedId = db.admissions[a].bedId
                      /\ served.db.admissions[a].patientId = db.admissions[a].patientId
                      /\ served.db.admissions[a].dischargeDate
                            = db.admissions[a].dischargeDate
        /\ db.admissions[a].status # "ACTIVE" =>
              LET served == Run(db, AdmissionsDeleteRequest(a))
              IN  /\ served.req.resp = 200
                  /\ served.db.beds = db.beds
                  /\ a \notin DOMAIN served.db.admissions

\* A closed admission whose bed another row describes: updates and the delete
\* of it are served.
C24_Witness ==
    \E a \in DOMAIN db.admissions :
        /\ db.admissions[a].status \in {"DISCHARGED", "TRANSFERRED"}
        /\ db.admissions[a].bedId \in DOMAIN db.beds
        /\ Response(db, AdmissionsPutRequest(a, "TRANSFERRED")) = 200
        /\ Response(db, AdmissionsDeleteRequest(a)) = 200

\* The conditions under which C6 promises that an Admit is rejected.
AdmitRejected(d, p, b, doc) ==
    \/ p \notin DOMAIN d.patients
    \/ b \notin DOMAIN d.beds
    \/ b \in DOMAIN d.beds /\ d.beds[b].status \in {"OCCUPIED", "MAINTENANCE"}
    \/ doc \notin DOMAIN Users
    \/ doc \in DOMAIN Users /\ Users[doc] # "DOCTOR"
    \/ ActiveAdmissionsOfPatient(d, p) # {}

\* C6: an Admit that names a missing patient, a missing bed, a bed that is
\* OCCUPIED or in MAINTENANCE, a missing doctor or a user who is no doctor,
\* or a patient with an ACTIVE admission, is answered with an error (400)
\* and leaves the beds and the admissions as they were.
C6_AdmitRejectedWithoutChange ==
    \A p \in PatientIds, b \in BedIds, doc \in UserInputs, e \in {NULL, Now} :
        AdmitRejected(db, p, b, doc) =>
            LET served == Run(db, AdmissionsPostRequest(p, b, doc, e))
            IN  /\ served.req.resp = 400
                /\ served.db.beds = db.beds
                /\ served.db.admissions = db.admissions

\* An Admit by a doctor that only the patient's ACTIVE admission stops (the
\* bed is AVAILABLE), and one that only the bed's MAINTENANCE stops.
C6_Witness ==
    \/ \E p \in DOMAIN db.patients, b \in DOMAIN db.beds :
          /\ ActiveAdmissionsOfPatient(db, p) # {}
          /\ db.beds[b].status = "AVAILABLE"
          /\ Response(db, AdmissionsPostRequest(p, b, "d1", NULL)) = 400
    \/ \E p \in DOMAIN db.patients, b \in DOMAIN db.beds :
          /\ ActiveAdmissionsOfPatient(db, p) = {}
          /\ db.beds[b].status = "MAINTENANCE"
          /\ Response(db, AdmissionsPostRequest(p, b, "d1", NULL)) = 400

\* C7: the delete of a patient with an ACTIVE admission is rejected and the
\* patient remains; once the patient's admissions are DISCHARGED (and the
\* patient has no active appointment) the delete succeeds and removes the
\* patient.
C7_PatientDeleteAfterDischarge ==
    \A p \in DOMAIN db.patients :
        LET served == Run(db, PatientsDeleteRequest(p))
            admissions == {a \in DOMAIN db.admissions : db.admissions[a].patientId = p}
        IN  /\ ActiveAdmissionsOfPatient(db, p) # {} =>
                  /\ served.req.resp = 400
                  /\ p \in DOMAIN served.db.patients
            /\ (/\ admissions # {}
                /\ \A a \in admissions : db.admissions[a].status = "DISCHARGED"
                /\ ActiveAppointmentsOfPatient(db, p) = {}) =>
                  /\ served.req.resp = 200
                  /\ p \notin DOMAIN served.db.patients

\* The request is answered 404 and leaves the store as it was.
NotFound404(q) ==
    LET served == Run(db, q)
    IN  served.req.resp = 404 /\ served.db = db

\* An update or delete whose :id names no row is answered 404.
PathIdNotFound404 ==
    /\ \A id \in AdmissionIds \ DOMAIN db.admissions :
          /\ \A s \in {""} \cup AdmissionStatus : NotFound404(AdmissionsPutRequest(id, s))
          /\ NotFound404(AdmissionsDeleteRequest(id))
    /\ \A id \in BedIds \ DOMAIN db.beds :
          /\ \A s \in {""} \cup BedStatus, p \in {NULL} \cup PatientIds :
                NotFound404(BedsPutRequest(id, s, p, NULL))
          /\ NotFound404(BedsDeleteRequest(id))
    /\ \A id \in PatientIds \ DOMAIN db.patients :
          NotFound404(PatientsDeleteRequest(id))
    /\ \A id \in AppointmentIds \ DOMAIN db.appointments :
          /\ \A s \in {""} \cup AppointmentStatus : NotFound404(AppointmentsPutRequest(id, s))
          /\ NotFound404(AppointmentsDeleteRequest(id))

\* A create of an admission or an appointment whose body names a patient, a
\* bed or a doctor that does not exist is answered 404.
BodyIdNotFound404 ==
    /\ \A p \in PatientIds, b \in BedIds, doc \in UserInputs :
          (p \notin DOMAIN db.patients \/ b \notin DOMAIN db.beds \/ doc \notin DOMAIN Users)
              => NotFound404(AdmissionsPostRequest(p, b, doc, NULL))
    /\ \A p \in PatientIds, doc \in UserInputs, date \in Dates, s \in AppointmentStatus :
          (p \notin DOMAIN db.patients \/ doc \notin DOMAIN Users)
              => NotFound404(AppointmentsPostRequest(p, doc, date, s))

\* C16: every request that names an id that no row has, as its :id or as the
\* patientId, bedId or doctorId of an admission or appointment create, is
\* answered 404 and leaves the store as it was.
C16_MissingIdAnswered404 ==
    PathIdNotFound404 /\ BodyIdNotFound404

\* The requests to the modelled routes, over the inputs of the actions.
Requests ==
    {PatientsPostRequest(m) : m \in Mrns}
    \cup {PatientsDeleteRequest(id) : id \in PatientIds}
    \cup {BedsPostRequest(n, s) : n \in BedNumbers, s \in {""} \cup BedStatus}
    \cup {BedsPutRequest(id, s, p, NULL) :
            id \in BedIds, s \in {""} \cup BedStatus, p \in {NULL} \cup PatientIds}
    \cup {BedsDeleteRequest(id) : id \in BedIds}
    \cup {AdmissionsPostRequest(p, b, doc, NULL) :
            p \in PatientIds, b \in BedIds, doc \in UserInputs}
    \cup {AdmissionsPutRequest(id, s) : id \in AdmissionIds, s \in {""} \cup AdmissionStatus}
    \cup {AdmissionsDeleteRequest(id) : id \in AdmissionIds}
    \cup {AppointmentsPostRequest(p, doc, date, s) :
            p \in PatientIds, doc \in UserInputs, date \in Dates, s \in AppointmentStatus}
    \cup {AppointmentsPutRequest(id, s) :
            id \in AppointmentIds, s \in {""} \cup AppointmentStatus}
    \cup {AppointmentsDeleteRequest(id) : id \in AppointmentIds}

\* C17: every request, served to the end of its handler with store calls that
\* return or throw, has been sent a response; and an update of a bed that
\* changes its status to AVAILABLE or MAINTENANCE is answered 200 and leaves
\* the bed with that status.
C17_EveryRequestAnswered ==
    /\ \A q \in Requests : Response(db, q) # NULL
    /\ \A b \in DOMAIN db.beds, s \in {"AVAILABLE", "MAINTENANCE"},
          p \in {NULL} \cup PatientIds :
          s # db.beds[b].status =>
              LET served == Run(db, BedsPutRequest(b, s, p, NULL))
              IN  /\ served.req.resp = 200
                  /\ served.db.beds[b].status = s

\* Every request but the update of a bed that changes its status to
\* AVAILABLE or MAINTENANCE has been sent a response at the end of its
\* handler.
AnsweredButBedReset ==
    \A q \in Requests :
        Response(db, q) = NULL =>
            /\ q.op = "PUT /beds"
            /\ q.id \in DOMAIN db.beds
            /\ q.status \in {"AVAILABLE", "MAINTENANCE"}
            /\ q.status # db.beds[q.id].status

(***************************************************************************)
(* Properties of concurrent requests (SpecConc)                            *)
(***************************************************************************)
\* The transaction step of the request on connection c.
TransactionStep(c, op) ==
    /\ reqs[c].op = op
    /\ reqs[c].pc = "txn"
    /\ reqs'[c] # reqs[c]

\* C8: the two writes of Admit, of Discharge/Transfer and of the delete of an
\* ACTIVE admission take effect together or not at all: a transaction step
\* either leaves the store as it was, or leaves both of its writes in it.
C8_TransactionsAtomic ==
    [][\A c \in Connections :
          LET q == reqs[c]
          IN  /\ TransactionStep(c, "POST /admissions") =>
                  \/ db' = db
                  \/ /\ db'.beds[q.bedId].status = "OCCUPIED"
                     /\ db'.beds[q.bedId].patientId = q.patientId
                     /\ \E a \in DOMAIN db'.admissions \ DOMAIN db.admissions :
                           /\ db'.admissions[a].bedId = q.bedId
                           /\ db'.admissions[a].patientId = q.patientId
                           /\ db'.admissions[a].status = "ACTIVE"
              /\ TransactionStep(c, "PUT /admissions") =>
                  \/ db' = db
                  \/ /\ q.id \in DOMAIN db'.admissions
                     /\ db'.admissions[q.id].status = q.status
                     /\ db'.beds[q.readBedId].status = "AVAILABLE"
                     /\ db'.beds[q.readBedId].patientId = NULL
              /\ TransactionStep(c, "DELETE /admissions") =>
                  \/ db' = db
                  \/ /\ q.id \in DOMAIN db.admissions
                     /\ q.id \notin DOMAIN db'.admissions
                     /\ db'.beds[q.readBedId].status = "AVAILABLE"
                     /\ db'.beds[q.readBedId].patientId = NULL
      ]_vars

\* A transaction about to fail after its first write: the delete of an
\* admission that a concurrent delete has removed, whose bed has been
\* occupied again since.
C8_Witness ==
    \E c \in Connections :
        /\ reqs[c].op = "DELETE /admissions"
        /\ reqs[c].pc = "txn"
        /\ reqs[c].id \notin DOMAIN db.admissions
        /\ db.beds[reqs[c].readBedId].status = "OCCUPIED"

\* C9: an admission is created ACTIVE, and once it is DISCHARGED or
\* TRANSFERRED no step changes its status again (it can only be deleted).
C9_ClosedAdmissionKeepsStatus ==
    [][/\ \A a \in DOMAIN db'.admissions \ DOMAIN db.admissions :
             db'.admissions[a].status = "ACTIVE"
       /\ \A a \in DOMAIN db.admissions \cap DOMAIN db'.admissions :
             db.admissions[a].status \in {"DISCHARGED", "TRANSFERRED"} =>
                 db'.admissions[a].status = db.admissions[a].status
      ]_vars

\* C25: the transaction of a discharge, a transfer or a delete of an
\* admission never frees a bed that another admission, ACTIVE at that moment,
\* references.
C25_FreedBedHasNoOtherActiveAdmission ==
    [][\A c \in Connections :
          (/\ \/ TransactionStep(c, "PUT /admissions")
              \/ TransactionStep(c, "DELETE /admissions")
           /\ db' # db)
              => ActiveAdmissionsOfBed(db, reqs[c].readBedId) \subseteq {reqs[c].id}
      ]_vars

(***************************************************************************)
(* Properties of the occupants of beds (SpecSeededBeds)                    *)
(***************************************************************************)
\* C26: in every state, no patient is the occupant (patientId) of two beds.
C26_PatientOccupiesOneBed ==
    \A b1 \in DOMAIN db.beds, b2 \in DOMAIN db.beds :
        b1 # b2 /\ db.beds[b1].patientId # NULL =>
            db.beds[b1].patientId # db.beds[b2].patientId

(***************************************************************************)
(* Properties of the foreign keys (SpecIntegrity)                          *)
(***************************************************************************)
PatientReferenced(d, p) ==
    \/ \E a \in DOMAIN d.admissions : d.admissions[a].patientId = p
    \/ \E a \in DOMAIN d.appointments : d.appointments[a].patientId = p

BedReferenced(d, b) ==
    \E a \in DOMAIN d.admissions : d.admissions[a].bedId = b

\* C27: in every state the patient, bed and doctor of every admission, the
\* patient and doctor of every appointment and the patient of every bed that
\* has one are rows of the store; the delete of a patient or of a bed that an
\* admission or an appointment of any status references changes nothing; the
\* delete of a patient that removes it leaves the beds that referred to it
\* without patient and otherwise as they were.
C27_ReferentialIntegrity ==
    /\ \A a \in DOMAIN db.admissions :
          /\ db.admissions[a].patientId \in DOMAIN db.patients
          /\ db.admissions[a].bedId \in DOMAIN db.beds
          /\ db.admissions[a].doctorId \in DOMAIN Users
    /\ \A a \in DOMAIN db.appointments :
          /\ db.appointments[a].patientId \in DOMAIN db.patients
          /\ db.appointments[a].doctorId \in DOMAIN Users
    /\ \A b \in DOMAIN db.beds :
          db.beds[b].patientId \in {NULL} \cup DOMAIN db.patients
    /\ \A p \in DOMAIN db.patients :
          LET after == After(db, PatientsDeleteRequest(p))
          IN  /\ PatientReferenced(db, p) => after = db
              /\ p \notin DOMAIN after.patients =>
                    after.beds = [b \in DOMAIN db.beds |->
                                     IF db.beds[b].patientId = p
                                     THEN [db.beds[b] EXCEPT !.patientId = NULL]
                                     ELSE db.beds[b]]
    /\ \A b \in DOMAIN db.beds :
          BedReferenced(db, b) => After(db, BedsDeleteRequest(b)) = db

\* A patient and a bed that only a closed admission references: the deletes
\* of both pass the checks of their handlers and fail on the foreign keys.
C27_Witness ==
    \E a \in DOMAIN db.admissions :
        /\ db.admissions[a].status # "ACTIVE"
        /\ db.beds[db.admissions[a].bedId].status # "OCCUPIED"
        /\ ActiveAppointmentsOfPatient(db, db.admissions[a].patientId) = {}
        /\ Response(db, PatientsDeleteRequest(db.admissions[a].patientId)) = 500
        /\ Response(db, BedsDeleteRequest(db.admissions[a].bedId)) = 500

(***************************************************************************)
(* Properties of the appointment queue (SpecAppointments)                  *)
(***************************************************************************)
\* C10: every appointment whose status is CANCELLED has no queue number.
C10_CancelledHasNoQueueNumber ==
    \A a \in DOMAIN db.appointments :
        db.appointments[a].status = "CANCELLED" =>
            db.appointments[a].queueNumber = NULL

\* C11: with requests served one at a time, the appointments of one date that
\* are not CANCELLED all carry a queue number of at least 1, and no two of them
\* carry the same one.
C11_QueueNumbersDistinctPerDate ==
    \A a \in DOMAIN db.appointments :
        db.appointments[a].status # "CANCELLED" =>
            /\ db.appointments[a].queueNumber # NULL
            /\ db.appointments[a].queueNumber >= 1
            /\ \A b \in DOMAIN db.appointments \ {a} :
                  (/\ db.appointments[b].status # "CANCELLED"
                   /\ db.appointments[b].date = db.appointments[a].date)
                      => db.appointments[b].queueNumber # db.appointments[a].queueNumber

\* The queue numbers of the appointments of a date that are not CANCELLED,
\* those without a number left out.
QueueNumbersOf(d, date) ==
    {d.appointments[a].queueNumber :
        a \in {b \in DOMAIN d.appointments :
                  /\ d.appointments[b].date = date
                  /\ d.appointments[b].status # "CANCELLED"
                  /\ d.appointments[b].queueNumber # NULL}}

\* C22: a create that is answered 201 stores its appointment with no queue
\* number when its status is CANCELLED, and otherwise with 1 + the largest
\* queue number of the non-cancelled appointments of its date (0 when none of
\* them has a number).
C22_CreateTakesNextQueueNumber ==
    \A p \in PatientIds, date \in Dates, s \in AppointmentStatus :
        LET served == Run(db, AppointmentsPostRequest(p, "d1", date, s))
            id == db.seq.appointments + 1
            numbers == QueueNumbersOf(db, date)
        IN  served.req.resp = 201 =>
                /\ id \in DOMAIN served.db.appointments
                /\ served.db.appointments[id].queueNumber =
                      IF s = "CANCELLED" THEN NULL
                      ELSE IF numbers = {} THEN 1
                      ELSE Max(numbers) + 1

\* C29 (SpecAppointmentUpdates): an update of an appointment is answered 200 and changes nothing but
\* the status of that appointment, which becomes the status of the request
\* and stays as it was when the request has none: its patientId, doctorId, date
\* and queueNumber and every other row are as before.
C29_UpdateChangesStatusOnly ==
    \A a \in DOMAIN db.appointments, s \in {""} \cup AppointmentStatus :
        LET served == Run(db, AppointmentsPutRequest(a, s))
        IN  /\ served.req.resp = 200
            /\ served.db = [db EXCEPT !.appointments[a].status =
                                          IF s = "" THEN @ ELSE s]

\* An appointment has been cancelled by an update and has kept its queue
\* number.
C29_Witness ==
    \E a \in DOMAIN db.appointments :
        /\ db.appointments[a].status = "CANCELLED"
        /\ db.appointments[a].queueNumber # NULL

(***************************************************************************)
(* Properties of concurrent requests around one bed (SpecConcBeds)         *)
(***************************************************************************)
\* C12: in every state, under every interleaving of the store calls of
\* concurrent requests, a bed that is AVAILABLE or in MAINTENANCE has no
\* patient.
C12_FreeBedHasNoPatient ==
    \A b \in DOMAIN db.beds :
        db.beds[b].status \in {"AVAILABLE", "MAINTENANCE"} =>
            db.beds[b].patientId = NULL

\* A bed that had a patient has been freed: it is AVAILABLE or in
\* MAINTENANCE, without patient, and an admission names it.
C12_Witness ==
    \E b \in DOMAIN db.beds, a \in DOMAIN db.admissions :
        /\ db.admissions[a].bedId = b
        /\ db.beds[b].status \in {"AVAILABLE", "MAINTENANCE"}
        /\ db.beds[b].patientId = NULL

\* The delete of a bed that is OCCUPIED or has an ACTIVE admission, served
\* with no other request in flight, is answered 400 and changes nothing.
BedDeleteRejected ==
    \A b \in DOMAIN db.beds :
        (db.beds[b].status = "OCCUPIED" \/ ActiveAdmissionsOfBed(db, b) # {}) =>
            LET served == Run(db, BedsDeleteRequest(b))
            IN  /\ served.req.resp = 400
                /\ served.db = db

\* C14: the delete of a bed that is OCCUPIED or referenced by an ACTIVE
\* admission is answered 400 and leaves the bed and the admissions as they
\* were; and under every interleaving with concurrent Admits, no step removes
\* a bed that an ACTIVE admission references.
C14_BedDeleteRejectedWhileInUse ==
    /\ []BedDeleteRejected
    /\ [][\A b \in DOMAIN db.beds :
             b \notin DOMAIN db'.beds => ActiveAdmissionsOfBed(db, b) = {}
         ]_vars

\* A delete of a bed has passed its checks and is about to run its delete
\* statement, and an Admit into the bed has committed since.
C14_Witness ==
    \E c \in Connections :
        /\ reqs[c].op = "DELETE /beds"
        /\ reqs[c].pc = "delete"
        /\ reqs[c].id \in DOMAIN db.beds
        /\ db.beds[reqs[c].id].status = "OCCUPIED"
        /\ ActiveAdmissionsOfBed(db, reqs[c].id) # {}

(***************************************************************************)
(* Properties of the concurrent delete of a patient (SpecConcPatients)     *)
(***************************************************************************)
\* C13: a step removes a patient only if, in the store the step finds, no
\* SCHEDULED, IN_QUEUE or IN_PROGRESS appointment and no ACTIVE admission
\* references the patient, whatever has run since the delete's checks.
C13_PatientRemovedOnlyWithoutActiveRows ==
    [][\A p \in DOMAIN db.patients :
          p \notin DOMAIN db'.patients =>
              /\ ActiveAppointmentsOfPatient(db, p) = {}
              /\ ActiveAdmissionsOfPatient(db, p) = {}
              /\ ActiveAppointmentsOfPatient(db', p) = {}
              /\ ActiveAdmissionsOfPatient(db', p) = {}
      ]_vars

\* A delete has passed its checks and is about to run its delete statement,
\* and an appointment create and an Admit for the patient have committed
\* since.
C13_Witness ==
    \E c \in Connections :
        /\ reqs[c].op = "DELETE /patients"
        /\ reqs[c].pc = "delete"
        /\ ActiveAppointmentsOfPatient(db, reqs[c].id) # {}
        /\ ActiveAdmissionsOfPatient(db, reqs[c].id) # {}

(***************************************************************************)
(* Properties of concurrent creates (SpecConcCreate)                       *)
(***************************************************************************)
\* No two patients share an mrn and no two beds share a bedNumber.
KeysUnique ==
    /\ \A p1, p2 \in DOMAIN db.patients :
          db.patients[p1].mrn = db.patients[p2].mrn => p1 = p2
    /\ \A b1, b2 \in DOMAIN db.beds :
          db.beds[b1].bedNumber = db.beds[b2].bedNumber => b1 = b2

\* The request on connection c is a create that ends with this step, and the
\* store the step finds has a row with the key of the request.
DuplicateCreateEnds(c) ==
    /\ reqs'[c] = NoRequest
    /\ \/ /\ reqs[c].op = "POST /patients"
          /\ \E p \in DOMAIN db.patients : db.patients[p].mrn = reqs[c].key
       \/ /\ reqs[c].op = "POST /beds"
          /\ \E b \in DOMAIN db.beds : db.beds[b].bedNumber = reqs[c].key

\* C15: under every interleaving of concurrent creates, a patient create
\* whose mrn is in use and a bed create whose bedNumber is in use is answered
\* 400 and adds no row, and no two patients share an mrn and no two beds a
\* bedNumber.
C15_DuplicateCreateRejected400 ==
    /\ []KeysUnique
    /\ [][\A c \in Connections :
             DuplicateCreateEnds(c) =>
                 /\ Step(db, reqs[c]).req.resp = 400
                 /\ db' = db
         ]_vars

(***************************************************************************)
(* Properties of the inventory (SpecInventory)                             *)
(***************************************************************************)
\* C18: in every state reached by inventory creates and updates that pass
\* validation, every item has quantity >= 0, reorderLevel >= 1 and cost >= 0.
C18_InventoryNumbersInRange ==
    \A i \in DOMAIN db.inventory :
        /\ db.inventory[i].quantity >= 0
        /\ db.inventory[i].reorderLevel >= 1
        /\ db.inventory[i].cost >= 0

(***************************************************************************)
(* Properties of concurrent Admit requests (SpecConcAdmit)                 *)
(***************************************************************************)
\* C20: the Admit race.  A request whose transaction is due has read its bed
\* AVAILABLE and found no ACTIVE admission of its patient; its transaction
\* then succeeds whatever has happened to the bed since: it is answered 201
\* and adds an ACTIVE admission on the bed, also when another patient's Admit
\* has taken the bed in between.
C20_AdmitRace ==
    [][\A c \in Connections :
          TransactionStep(c, "POST /admissions") =>
              LET q == reqs[c]
                  id == db.seq.admissions + 1
              IN  /\ Step(db, q).req.resp = 201
                  /\ id \notin DOMAIN db.admissions
                  /\ id \in DOMAIN db'.admissions
                  /\ db'.admissions[id].status = "ACTIVE"
                  /\ db'.admissions[id].bedId = q.bedId
                  /\ db'.admissions[id].patientId = q.patientId
                  /\ \A a \in DOMAIN db.admissions : db'.admissions[a] = db.admissions[a]]_vars

\* Two Admit requests of different patients have both succeeded on one bed.
C20_Witness ==
    \E a1 \in DOMAIN db.admissions, a2 \in DOMAIN db.admissions :
        /\ db.admissions[a1].status = "ACTIVE"
        /\ db.admissions[a2].status = "ACTIVE"
        /\ db.admissions[a1].bedId = db.admissions[a2].bedId
        /\ db.admissions[a1].patientId # db.admissions[a2].patientId
        /\ db.beds[db.admissions[a1].bedId].status = "OCCUPIED"

(***************************************************************************)
(* Properties of concurrent appointment creates (SpecConcAppointments)     *)
(***************************************************************************)
\* The create step of the appointment request on connection c.
AppointmentCreateStep(c) ==
    /\ reqs[c].op = "POST /appointments"
    /\ reqs[c].pc = "create"
    /\ reqs'[c] # reqs[c]

\* C21: the queue-number race.  The create of a non-cancelled appointment
\* stores the number its request derived from the maximum it read, whatever
\* has been stored for the date since, and is answered 201: two concurrent
\* creates that read the same maximum are both stored with the same number.
C21_QueueNumberRace ==
    [][\A c \in Connections :
          AppointmentCreateStep(c) =>
              LET q == reqs[c]
                  id == db.seq.appointments + 1
              IN  /\ Step(db, q).req.resp = 201
                  /\ id \notin DOMAIN db.appointments
                  /\ id \in DOMAIN db'.appointments
                  /\ db'.appointments[id].queueNumber = q.readQueue
                  /\ db'.appointments[id].date = q.date
                  /\ db'.appointments[id].status = q.status
                  /\ \A a \in DOMAIN db.appointments :
                        db'.appointments[a] = db.appointments[a]]_vars

\* Two non-cancelled appointments of one date are stored with one queue
\* number.
C21_Witness ==
    \E a1 \in DOMAIN db.appointments, a2 \in DOMAIN db.appointments :
        /\ a1 # a2
        /\ db.appointments[a1].date = db.appointments[a2].date
        /\ db.appointments[a1].status # "CANCELLED"
        /\ db.appointments[a2].status # "CANCELLED"
        /\ db.appointments[a1].queueNumber # NULL
        /\ db.appointments[a1].queueNumber = db.appointments[a2].queueNumber

(***************************************************************************)
(* Properties of the seed script (SpecSeed)                                *)
(***************************************************************************)
\* C30: after every run of the seed script, first or repeated, the bed of
\* every ACTIVE admission is OCCUPIED with the patient of the admission, every
\* AVAILABLE bed has no patient, and no patient has two ACTIVE admissions.
C30_SeedKeepsBedsAndAdmissionsPaired ==
    /\ \A a \in DOMAIN db.admissions :
          db.admissions[a].status = "ACTIVE" =>
              /\ db.beds[db.admissions[a].bedId].status = "OCCUPIED"
              /\ db.beds[db.admissions[a].bedId].patientId = db.admissions[a].patientId
    /\ \A b \in DOMAIN db.beds :
          db.beds[b].status = "AVAILABLE" => db.beds[b].patientId = NULL
    /\ \A p \in DOMAIN db.patients :
          Cardinality(ActiveAdmissionsOfPatient(db, p)) <= 1

(***************************************************************************)
(* Properties of the dashboard (SpecDashboard)                             *)
(***************************************************************************)
\* The step of the summary on connection c that sends its response.
DashboardResponseStep(c) ==
    /\ reqs[c].op = "GET /dashboard/summary"
    /\ reqs[c].pc = "upcomingAppointments"
    /\ reqs'[c] # reqs[c]

\* C28 (SpecConcDashboard): every summary that is sent has availableBeds +
\* occupiedBeds <= totalBeds and an occupancyRate from 0 to 100, whatever
\* commits between its count queries.
C28_SummaryCountsConsistent ==
    [][\A c \in Connections :
          DashboardResponseStep(c) =>
              LET json == Step(db, reqs[c]).req.json
              IN  /\ json.availableBeds + json.occupiedBeds <= json.totalBeds
                  /\ json.occupancyRate >= 0
                  /\ json.occupancyRate <= 100]_vars

\* n / d rounded to the nearest integer, halves up, in exact arithmetic
RoundHalfUp(n, d) == (2 * n + d) \div (2 * d)

\* C19: the occupancyRate of every dashboard summary is occupiedBeds /
\* totalBeds * 100 rounded to the nearest integer, halves up, when there are
\* beds, and 0 when there are none; the summary of an empty store has all
\* counts 0, occupancyRate 0 and no recent admissions.
C19_OccupancyRateRounded ==
    \A c \in Connections :
        reqs[c].op = "GET /dashboard/summary" /\ reqs[c].resp = 200 =>
            LET json == reqs[c].json
            IN  /\ json.totalBeds > 0 =>
                    json.occupancyRate
                        = RoundHalfUp(json.occupiedBeds * 100, json.totalBeds)
                /\ json.totalBeds = 0 => json.occupancyRate = 0
                /\ db = EmptyDb => json = NoSummary

====
